---- MODULE Spec2Model ----
(***************************************************************************)
(* A model of duinoapp/upload-multitool: the upload dispatcher, the AVR    *)
(* protocol engines (STK500v1, STK500v2, AVR109), the ESP loader and the   *)
(* devices they talk to.                                                   *)
(*                                                                         *)
(* Spec        the dispatcher: upload(port, config) and isSupported, with  *)
(*             each engine reduced to what it does to the serial ports.    *)
(* SpecEngine  one bootload of a protocol engine, command by command,      *)
(*             against a device that keeps a flash memory.                 *)
(* SpecDefect  the same bootload on a fault-free line against a device     *)
(*             with a worn flash cell or another software id.              *)
(* SpecPipe    one packet: the bytes a sender frames (SLIP, STK500v2) and  *)
(*             what the receiver makes of the data events carrying them.   *)
(* SpecEsp     one esp.upload: connect, chip detection, stub, writeFlash.  *)
(***************************************************************************)
EXTENDS Integers, Sequences, FiniteSets, TLC

VARIABLES
  \* ---- dispatcher (index.ts, avr/index.ts, esp/index.ts)
  ver,          \* which index.ts: "legacy" (returns nothing) or "current" (returns {serialport, time})
  env,          \* "node" or "browser" (typeof window)
  cfg,          \* the ProgramConfig of the call
  ports,        \* port id -> [isOpen, baudRate]
  pc,           \* position inside upload
  entryBaud,    \* baud rate of the input port when upload was entered
  existingBaud, \* const existingBaud = serial.baudRate
  engSerial,    \* AVR109: this.serial
  orgSpeed,     \* AVR109: this.orgSpeed
  newPort,      \* let newPort (current index.ts)
  outcome,      \* "running", "returned" or "rejected"
  err,          \* why upload rejected
  ops,          \* the kinds of operation performed on a port since entry
  engine,       \* the engine that was constructed and started, or "none"
  engineOk,     \* the engine's bootload / write ran to its end without an error
  retval,       \* what upload resolved with: [isObject, serialport, time]
  clock,        \* Date.now()
  ts,           \* const ts = Date.now()
  supported,    \* the isSupported(cfg.tool, cfg.cpu) calls made so far: <<when, result>>
  reconnects,   \* AVR109: the calls of the reconnect callback so far: who called, the
                \* baudRate passed, the port this.serial was at the call
  \* ---- protocol engines (stk500v1.ts, stk500v2.ts, avr109.ts) and the device
  proto,        \* the engine that runs: "stk500v1", "stk500v2", "avr109"
  hex,          \* the image given to bootload
  pageSize,     \* opt.pageSize
  dev,          \* the device: flash, address register, programming mode, capabilities
  link,         \* the line: fault mode, chunking of the replies, stray bytes in flight
  epc,          \* position inside bootload
  loc,          \* locals of the running method (page index, attempts, cursors, read buffer)
  a9,           \* AVR109 instance fields: hasAutoIncrAddr, useBlockMode, bufferSize, testBlockMode
  sent,         \* the commands written to the port so far, in order
  eerr,         \* the error bootload rejected with
  \* ---- ESP loader (esp/index.ts, ESPLoader.ts) and the device
  esp,          \* ESPLoader instance fields: IS_STUB, chip, FLASH_WRITE_SIZE
  ectl,         \* position inside esp upload and the locals of the running method
  edev,         \* the ESP device and its line
  ecmds,        \* the commands written to the port after connect, in order
  pipe          \* one packet on its way from a sender (ESPLoader.write, STK500v2
                \* sendCommand) to a receiver (ESPLoader.read)

dispVars == <<ver, env, cfg, ports, pc, entryBaud, existingBaud, engSerial, orgSpeed,
              newPort, outcome, err, ops, engine, engineOk, retval, clock, ts, supported,
              reconnects>>

engVars == <<proto, hex, pageSize, dev, link, epc, loc, a9, sent, eerr>>

espVars == <<esp, ectl, edev, ecmds, pipe>>

vars == <<dispVars, engVars, espVars>>

-----------------------------------------------------------------------------
(* Values *)

Undefined == "undefined"

BAUD_TOUCH == 1200
BAUD_AVR109 == 57600
BAUD_DEFAULT == 115200

Tools == {"avr", "avrdude", "esptool", "esptool_py", "bob"}
CatalogCpus == {"atmega328p", "atmega168", "atmega8", "atmega2560", "atmega1280", "atmega32u4"}
Cpus == CatalogCpus \cup {"esp8266", "esp32", "atmega420", "esp69"}
\* config.speed: 0 stands for "not given" (it is falsy in the code as well)
Speeds == {0, BAUD_AVR109, BAUD_DEFAULT}
EntryBauds == {BAUD_TOUCH, BAUD_DEFAULT}
PortIds == {"input", "bootloader", "app"}

-----------------------------------------------------------------------------
(* The CPU catalog and the routing *)

\* cpuDefs[cpu].protocol; "none" when cpuDefs has no such key (getCpuData throws)
cpuProtocol(cpu) ==
  CASE cpu \in {"atmega328p", "atmega168", "atmega8"} -> "stk500v1"
    [] cpu \in {"atmega2560", "atmega1280"} -> "stk500v2"
    [] cpu = "atmega32u4" -> "avr109"
    [] OTHER -> "none"

getCpuDataThrows(cpu) == cpuProtocol(cpu) = "none"

\* the earlier avr/index.ts (src/avr/index.ts): only stk500v1 is accepted
avrIsSupportedLegacy(cpu) ==
  IF getCpuDataThrows(cpu) THEN FALSE ELSE cpuProtocol(cpu) \in {"stk500v1"}

\* avr/index.ts isSupported: getCpuData in a try, then the protocol list
avrIsSupported(cpu) ==
  IF getCpuDataThrows(cpu) THEN FALSE
  ELSE cpuProtocol(cpu) \in {"stk500v1", "stk500v2", "avr109"}

espIsSupported(cpu) == cpu \in {"esp8266", "esp32"}

isSupported(tool, cpu) ==
  CASE tool \in {"avr", "avrdude"} -> avrIsSupported(cpu)
    [] tool \in {"esptool", "esptool_py"} -> espIsSupported(cpu)
    [] OTHER -> FALSE

-----------------------------------------------------------------------------
(* Serial ports: SerialPortPromise over a serialport stream *)

PortOpen(ps, p) == [ps EXCEPT ![p].isOpen = TRUE]
PortClose(ps, p) == [ps EXCEPT ![p].isOpen = FALSE]
PortUpdate(ps, p, baud) == [ps EXCEPT ![p].baudRate = baud]
\* update() and close() are refused on a port that is not open, open() on one that is
CanUpdate(ps, p) == ps[p].isOpen
CanClose(ps, p) == ps[p].isOpen
CanOpen(ps, p) == ~ps[p].isOpen

NoValue == [isObject |-> FALSE, serialport |-> Undefined, time |-> 0]

Tick == clock' = clock + 1

Reject(why) ==
  /\ outcome' = "rejected"
  /\ err' = why
  /\ pc' = "exit"

\* no engine is being stepped: the dispatcher specification keeps these values
NoLocals == [step |-> "none", i |-> 0, tries |-> 0, round |-> 0, addr |-> 0, pageAddr |-> 0,
             pageBytes |-> 0, pend |-> FALSE, rdData |-> <<>>, caught |-> "none"]

EngIdle ==
  /\ proto = "none"
  /\ hex = <<>>
  /\ pageSize = 0
  /\ dev = [flash |-> <<>>]
  /\ link = [fault |-> "good"]
  /\ epc = "idle"
  /\ loc = NoLocals
  /\ a9 = [testBlockMode |-> TRUE]
  /\ sent = <<>>
  /\ eerr = "none"

-----------------------------------------------------------------------------
(* upload(serial, config): index.ts *)

\* no ESP loader exists and no packet travels: the other specifications keep these values
EspIdle ==
  /\ esp = [IS_STUB |-> FALSE]
  /\ ectl = [pc |-> "idle"]
  /\ edev = [magic |-> <<>>]
  /\ ecmds = <<>>

LoaderIdle ==
  /\ EspIdle
  /\ pipe = [kind |-> "none"]

Init ==
  /\ EngIdle
  /\ LoaderIdle
  /\ ver \in {"legacy", "current"}
  /\ env \in {"node", "browser"}
  /\ cfg \in [tool : Tools, cpu : Cpus, speed : Speeds,
              hasBin : BOOLEAN, hasFiles : BOOLEAN, hasReconnect : BOOLEAN]
  /\ entryBaud \in EntryBauds
  /\ \E o \in BOOLEAN :
       ports = [p \in PortIds |->
                 IF p = "input" THEN [isOpen |-> o, baudRate |-> entryBaud]
                 ELSE [isOpen |-> FALSE, baudRate |-> BAUD_TOUCH]]
  /\ pc = "entry"
  /\ existingBaud = 0
  /\ engSerial = "input"
  /\ orgSpeed = 0
  /\ newPort = Undefined
  /\ outcome = "running"
  /\ err = "none"
  /\ ops = {}
  /\ engine = "none"
  /\ engineOk = FALSE
  /\ retval = NoValue
  /\ clock = 0
  /\ ts = 0
  /\ supported = {}
  /\ reconnects = <<>>

\* ---- index.ts ----------------------------------------------------------

\* if (!config.bin && !config.files?.length) throw ...; const ts = Date.now()
Validate ==
  /\ pc = "entry"
  /\ outcome = "running"
  /\ IF ~cfg.hasBin /\ ~cfg.hasFiles
       THEN Reject("NoImage") /\ UNCHANGED ts
       ELSE pc' = "open" /\ ts' = clock /\ UNCHANGED <<outcome, err>>
  /\ Tick
  /\ UNCHANGED <<espVars, engVars, reconnects, ver, env, cfg, ports, entryBaud, existingBaud, engSerial, orgSpeed,
                 newPort, ops, engine, engineOk, retval, supported>>

\* if (!serial.isOpen) { await serial.open(); await waitForOpen(serial); }
EnsureOpen ==
  /\ pc = "open"
  /\ IF ~ports["input"].isOpen
       THEN /\ ports' = PortOpen(ports, "input")
            /\ ops' = ops \cup {"open"}
       ELSE UNCHANGED <<ports, ops>>
  /\ pc' = "baud"
  /\ Tick
  /\ UNCHANGED <<espVars, engVars, reconnects, ver, env, cfg, entryBaud, existingBaud, engSerial, orgSpeed, newPort,
                 outcome, err, engine, engineOk, retval, ts, supported>>

\* const existingBaud = serial.baudRate;
\* if (config.speed && config.speed !== serial.baudRate) await setBaud(serial, config.speed);
SetUploadBaud ==
  /\ pc = "baud"
  /\ existingBaud' = ports["input"].baudRate
  /\ IF cfg.speed # 0 /\ cfg.speed # ports["input"].baudRate
       THEN /\ ports' = PortUpdate(ports, "input", cfg.speed)
            /\ ops' = ops \cup {"update"}
       ELSE UNCHANGED <<ports, ops>>
  /\ pc' = "route"
  /\ Tick
  /\ UNCHANGED <<espVars, engVars, reconnects, ver, env, cfg, entryBaud, engSerial, orgSpeed, newPort,
                 outcome, err, engine, engineOk, retval, ts, supported>>

\* switch (config.tool)
Route ==
  /\ pc = "route"
  /\ CASE cfg.tool \in {"avr", "avrdude"} -> pc' = "avr" /\ UNCHANGED <<outcome, err>>
       [] cfg.tool \in {"esptool", "esptool_py"} -> pc' = "esp" /\ UNCHANGED <<outcome, err>>
       [] OTHER -> Reject("UnsupportedTool")
  /\ Tick
  /\ UNCHANGED <<espVars, engVars, reconnects, ver, env, cfg, ports, entryBaud, existingBaud, engSerial, orgSpeed,
                 newPort, ops, engine, engineOk, retval, ts, supported>>

\* ---- avr/index.ts ------------------------------------------------------

\* What avr.upload resolves with: the function has no return statement.
avrUploadResult(port) == Undefined

\* const cpuData = getCpuData(config.cpu); switch (cpuData.protocol)
AvrUpload ==
  /\ pc = "avr"
  /\ CASE getCpuDataThrows(cfg.cpu) ->
            Reject("UnknownCpu") /\ UNCHANGED <<engine, orgSpeed>>
       [] cpuProtocol(cfg.cpu) \in {"stk500v1", "stk500v2"} ->
            /\ engine' = cpuProtocol(cfg.cpu)
            /\ pc' = "stk"
            /\ UNCHANGED <<outcome, err, orgSpeed>>
       [] cpuProtocol(cfg.cpu) = "avr109" ->
            IF ~cfg.hasReconnect
              THEN Reject("NoReconnect") /\ UNCHANGED <<engine, orgSpeed>>
              ELSE /\ engine' = "avr109"
                   \* constructor: this.orgSpeed = this.serial.baudRate || 115200
                   /\ orgSpeed' = IF ports["input"].baudRate # 0
                                    THEN ports["input"].baudRate ELSE BAUD_DEFAULT
                   /\ pc' = "a109_touch"
                   /\ UNCHANGED <<outcome, err>>
       [] OTHER -> Reject("UnsupportedProtocol") /\ UNCHANGED <<engine, orgSpeed>>
  /\ Tick
  /\ UNCHANGED <<espVars, engVars, reconnects, ver, env, cfg, ports, entryBaud, existingBaud, engSerial,
                 newPort, ops, engineOk, retval, ts, supported>>

\* STK500v1 / STK500v2 bootload, seen from the port: DTR/RTS pulses and writes on
\* the port it was given; it resolves, or it rejects with the error of the step
\* that failed.  It never changes the baud rate and never opens or closes the port.
StkBootload ==
  /\ pc = "stk"
  /\ ops' = ops \cup {"set", "write"}
  /\ \/ /\ engineOk' = TRUE
        /\ newPort' = avrUploadResult("input")
        /\ pc' = "engine_done"
        /\ UNCHANGED <<outcome, err>>
     \/ Reject("EngineError") /\ UNCHANGED <<engineOk, newPort>>
  /\ Tick
  /\ UNCHANGED <<espVars, engVars, reconnects, ver, env, cfg, ports, entryBaud, existingBaud, engSerial, orgSpeed,
                 engine, retval, ts, supported>>

\* ---- AVR109.bootload, seen from the ports ------------------------------

\* enterBootloader: update({ baudRate: 1200 }), close()
A109Touch ==
  /\ pc = "a109_touch"
  /\ IF CanUpdate(ports, engSerial)
       THEN /\ ports' = PortClose(PortUpdate(ports, engSerial, BAUD_TOUCH), engSerial)
            /\ ops' = ops \cup {"update", "close"}
            /\ pc' = "a109_reconnect"
            /\ UNCHANGED <<outcome, err>>
       ELSE Reject("PortNotOpen") /\ UNCHANGED <<ports, ops>>
  /\ Tick
  /\ UNCHANGED <<espVars, engVars, reconnects, ver, env, cfg, entryBaud, existingBaud, engSerial, orgSpeed, newPort,
                 engine, engineOk, retval, ts, supported>>

\* this.serial = await this.reconnect({ baudRate: this.opts.speed || 57600 })
\* The callback is the caller's: it hands over a port, open or not, at the baud
\* rate it was asked for or at another one, or it fails (rejects or times out).
A109Reconnect ==
  /\ pc = "a109_reconnect"
  /\ reconnects' = Append(reconnects, [by |-> "enterBootloader", baudRate |-> BAUD_AVR109,
                                       serial |-> ports[engSerial]])
  /\ \/ \E o \in BOOLEAN, b \in {BAUD_TOUCH, BAUD_AVR109} :
          /\ ports' = [ports EXCEPT !["bootloader"] = [isOpen |-> o, baudRate |-> b]]
          /\ engSerial' = "bootloader"
          /\ pc' = "a109_open"
          /\ UNCHANGED <<outcome, err>>
     \/ Reject("ReconnectFailed") /\ UNCHANGED <<ports, engSerial>>
  /\ Tick
  /\ UNCHANGED <<espVars, engVars, ver, env, cfg, entryBaud, existingBaud, orgSpeed, newPort, ops,
                 engine, engineOk, retval, ts, supported>>

\* if (!this.serial.isOpen) open; if (this.serial.baudRate !== this.opts.speed) update
\* (avr/index.ts passes no speed option, so opts.speed is undefined)
A109OpenBootloader ==
  /\ pc = "a109_open"
  /\ ports' = PortUpdate(PortOpen(ports, engSerial), engSerial, BAUD_AVR109)
  /\ ops' = ops \cup {"update"} \cup (IF ports[engSerial].isOpen THEN {} ELSE {"open"})
  /\ pc' = "a109_proto"
  /\ Tick
  /\ UNCHANGED <<espVars, engVars, reconnects, ver, env, cfg, entryBaud, existingBaud, engSerial, orgSpeed, newPort,
                 outcome, err, engine, engineOk, retval, ts, supported>>

\* sync, init, chipErase, program, verify, leaveProgrammingMode
A109Protocol ==
  /\ pc = "a109_proto"
  /\ ops' = ops \cup {"write"}
  /\ \/ pc' = "a109_exit" /\ UNCHANGED <<outcome, err>>
     \/ Reject("EngineError")
  /\ Tick
  /\ UNCHANGED <<espVars, engVars, reconnects, ver, env, cfg, ports, entryBaud, existingBaud, engSerial, orgSpeed,
                 newPort, engine, engineOk, retval, ts, supported>>

\* exitBootloader: 'E', close()
A109Exit ==
  /\ pc = "a109_exit"
  /\ \/ /\ ports' = PortClose(ports, engSerial)
        /\ ops' = ops \cup {"close"}
        /\ pc' = "a109_return"
        /\ UNCHANGED <<outcome, err>>
     \/ Reject("EngineError") /\ UNCHANGED <<ports, ops>>
  /\ Tick
  /\ UNCHANGED <<espVars, engVars, reconnects, ver, env, cfg, entryBaud, existingBaud, engSerial, orgSpeed, newPort,
                 engine, engineOk, retval, ts, supported>>

\* if (typeof window === 'undefined') { this.serial = this.orgSerialPort; open; update(orgSpeed) }
A109ReopenNode ==
  /\ pc = "a109_return"
  /\ env = "node"
  /\ engSerial' = "input"
  /\ IF CanOpen(ports, "input")
       THEN /\ ports' = PortUpdate(PortOpen(ports, "input"), "input", orgSpeed)
            /\ ops' = ops \cup {"open", "update"}
            /\ engineOk' = TRUE
            /\ newPort' = avrUploadResult("input")
            /\ pc' = "engine_done"
            /\ UNCHANGED <<outcome, err>>
       ELSE Reject("PortAlreadyOpen") /\ UNCHANGED <<ports, ops, engineOk, newPort>>
  /\ Tick
  /\ UNCHANGED <<espVars, engVars, reconnects, ver, env, cfg, entryBaud, existingBaud, orgSpeed,
                 engine, retval, ts, supported>>

\* else { this.serial = await this.reconnect({ baudRate: this.orgSpeed }); await this.serial.open(); }
A109ReopenBrowser ==
  /\ pc = "a109_return"
  /\ env = "browser"
  /\ reconnects' = Append(reconnects, [by |-> "bootload", baudRate |-> orgSpeed,
                                       serial |-> ports[engSerial]])
  /\ \/ \E o \in BOOLEAN, b \in {BAUD_TOUCH, orgSpeed} :
          /\ engSerial' = "app"
          /\ IF o
               THEN \* open() on a port that is open already is refused
                    /\ ports' = [ports EXCEPT !["app"] = [isOpen |-> TRUE, baudRate |-> b]]
                    /\ Reject("PortAlreadyOpen")
                    /\ UNCHANGED <<ops, engineOk, newPort>>
               ELSE /\ ports' = [ports EXCEPT !["app"] = [isOpen |-> TRUE, baudRate |-> b]]
                    /\ ops' = ops \cup {"open"}
                    /\ engineOk' = TRUE
                    /\ newPort' = avrUploadResult("app")
                    /\ pc' = "engine_done"
                    /\ UNCHANGED <<outcome, err>>
     \/ Reject("ReconnectFailed") /\ UNCHANGED <<ports, ops, engSerial, engineOk, newPort>>
  /\ Tick
  /\ UNCHANGED <<espVars, engVars, ver, env, cfg, entryBaud, existingBaud, orgSpeed,
                 engine, retval, ts, supported>>

\* ---- esp/index.ts ------------------------------------------------------

\* What esp.upload resolves with: every path ends in a bare return or falls off the end.
espUploadResult(port) == Undefined

\* if (!config.files?.length) throw new Error('No files to upload')
EspUpload ==
  /\ pc = "esp"
  /\ IF ~cfg.hasFiles
       THEN Reject("NoFiles") /\ UNCHANGED engine
       ELSE engine' = "esp" /\ pc' = "esp_connect" /\ UNCHANGED <<outcome, err>>
  /\ Tick
  /\ UNCHANGED <<espVars, engVars, reconnects, ver, env, cfg, ports, entryBaud, existingBaud, engSerial, orgSpeed,
                 newPort, ops, engineOk, retval, ts, supported>>

\* try { new ESPLoader(...); await espLoader.mainFn(); }
\* catch (err) { try { await serial.close(); } catch (err2) {} return; }
EspConnect ==
  /\ pc = "esp_connect"
  /\ \/ /\ ops' = ops \cup {"set", "write"}
        /\ pc' = "esp_write"
        /\ UNCHANGED <<ports, newPort>>
     \/ /\ ports' = PortClose(ports, "input")
        /\ ops' = ops \cup {"set", "write", "close"}
        /\ newPort' = espUploadResult("input")
        /\ pc' = "engine_done"
  /\ Tick
  /\ UNCHANGED <<espVars, engVars, reconnects, ver, env, cfg, entryBaud, existingBaud, engSerial, orgSpeed,
                 outcome, err, engine, engineOk, retval, ts, supported>>

\* try { await espLoader.writeFlash(...); await espLoader.flashDeflFinish(...); }
\* catch (err) { console.error(err); log('Failed to upload:', ...); }
EspWrite ==
  /\ pc = "esp_write"
  /\ ops' = ops \cup {"write"}
  /\ engineOk' \in BOOLEAN
  /\ newPort' = espUploadResult("input")
  /\ pc' = "engine_done"
  /\ Tick
  /\ UNCHANGED <<espVars, engVars, reconnects, ver, env, cfg, ports, entryBaud, existingBaud, engSerial, orgSpeed,
                 outcome, err, engine, retval, ts, supported>>

\* ---- index.ts, after the engine ------------------------------------------

\* the port whose baud rate is restored: serial (legacy), newPort (current)
restoredPort == IF ver = "legacy" THEN "input" ELSE newPort

\* a dispatcher that leaves the baud rate as the engine left it
restoreNeededNever(ps, p, existing) == FALSE

\* if (newPort.baudRate !== existingBaud)
restoreNeeded(ps, p, existing) == ps[p].baudRate # existing

\* if (newPort.baudRate !== existingBaud) await setBaud(newPort, existingBaud);
RestoreBaud ==
  /\ pc = "engine_done"
  /\ CASE restoredPort = Undefined ->
            \* reading .baudRate of undefined throws a TypeError
            Reject("TypeError") /\ UNCHANGED <<ports, ops>>
       [] restoredPort # Undefined /\ ~restoreNeeded(ports, restoredPort, existingBaud) ->
            pc' = "return" /\ UNCHANGED <<ports, ops, outcome, err>>
       [] OTHER ->
            IF CanUpdate(ports, restoredPort)
              THEN /\ ports' = PortUpdate(ports, restoredPort, existingBaud)
                   /\ ops' = ops \cup {"update"}
                   /\ pc' = "return"
                   /\ UNCHANGED <<outcome, err>>
              ELSE Reject("PortNotOpen") /\ UNCHANGED <<ports, ops>>
  /\ Tick
  /\ UNCHANGED <<espVars, engVars, reconnects, ver, env, cfg, entryBaud, existingBaud, engSerial, orgSpeed, newPort,
                 engine, engineOk, retval, ts, supported>>

\* return { serialport: newPort, time: Date.now() - ts }   (legacy: falls off the end)
Return ==
  /\ pc = "return"
  /\ outcome' = "returned"
  /\ retval' = IF ver = "legacy" THEN NoValue
               ELSE [isObject |-> TRUE, serialport |-> newPort, time |-> clock - ts]
  /\ pc' = "exit"
  /\ Tick
  /\ UNCHANGED <<espVars, engVars, reconnects, ver, env, cfg, ports, entryBaud, existingBaud, engSerial, orgSpeed,
                 newPort, err, ops, engine, engineOk, ts, supported>>

\* isSupported(tool, cpu), called before or after the upload
IsSupportedCall ==
  /\ pc \in {"entry", "exit"}
  /\ \A q \in supported : q[1] # pc
  /\ supported' = supported \cup {<<pc, isSupported(cfg.tool, cfg.cpu)>>}
  /\ UNCHANGED <<espVars, engVars, reconnects, ver, env, cfg, ports, pc, entryBaud, existingBaud, engSerial, orgSpeed,
                 newPort, outcome, err, ops, engine, engineOk, retval, clock, ts>>

Next ==
  \/ Validate
  \/ EnsureOpen
  \/ SetUploadBaud
  \/ Route
  \/ AvrUpload
  \/ StkBootload
  \/ A109Touch
  \/ A109Reconnect
  \/ A109OpenBootloader
  \/ A109Protocol
  \/ A109Exit
  \/ A109ReopenNode
  \/ A109ReopenBrowser
  \/ EspUpload
  \/ EspConnect
  \/ EspWrite
  \/ RestoreBaud
  \/ Return
  \/ IsSupportedCall

Spec == Init /\ [][Next]_vars

-----------------------------------------------------------------------------
(* Claims about the dispatcher, checked under Spec *)

\* the port the caller holds once upload has exited
callerPort == IF retval.isObject THEN retval.serialport ELSE "input"

C2_BaudRestoredOnEveryExit ==
  pc = "exit" =>
    /\ callerPort # Undefined
    /\ ports[callerPort].baudRate = entryBaud

\* C3: for an AVR tool and a cpu absent from the catalog upload rejects with the
\* unknown-CPU error without having performed any operation on the port.
C3_UnknownCpuTouchesNoPort ==
  (pc = "exit" /\ cfg.tool \in {"avr", "avrdude"} /\ cfg.cpu \notin CatalogCpus
     /\ (cfg.hasBin \/ cfg.hasFiles)) =>
    /\ outcome = "rejected"
    /\ err = "UnknownCpu"
    /\ ops = {}

\* C4: every isSupported(tool, cpu) call, before or after an upload and whatever
\* the ports' state, returns true exactly when (tool is avr or avrdude and cpu is
\* a catalog entry whose protocol is stk500v1, stk500v2 or avr109) or (tool is
\* esptool or esptool_py and cpu is esp8266 or esp32).
C4_IsSupportedCharacterised ==
  \A q \in supported :
    q[2] = ( \/ /\ cfg.tool \in {"avr", "avrdude"}
                /\ cfg.cpu \in CatalogCpus
                /\ cpuProtocol(cfg.cpu) \in {"stk500v1", "stk500v2", "avr109"}
             \/ /\ cfg.tool \in {"esptool", "esptool_py"}
                /\ cfg.cpu \in {"esp8266", "esp32"} )

\* isSupported was called before and after an upload to an stk500v2 board
C4_Witness ==
  /\ Cardinality(supported) = 2
  /\ cfg.cpu = "atmega2560"
  /\ cfg.tool = "avrdude"
  /\ outcome # "running"
  /\ \A q \in supported : q[2]

\* the request is valid apart from its tool and cpu
validRequest == cfg.hasBin /\ cfg.hasFiles /\ cfg.hasReconnect

\* C5: isSupported(tool, cpu) is false exactly when upload with an otherwise valid
\* request is rejected with a configuration error before any engine is started.
C5_SameRouting ==
  (pc = "exit" /\ validRequest) =>
    ( ~isSupported(cfg.tool, cfg.cpu)
        <=> ( /\ outcome = "rejected"
              /\ err \in {"UnsupportedTool", "UnknownCpu", "UnsupportedProtocol"}
              /\ engine = "none" ) )

\* C6: whenever the upload has completed successfully, upload returns an object
\* {serialport, time} whose serialport is a defined, open port and whose time is
\* not negative.
C6_ReturnsOpenPort ==
  (pc = "exit" /\ (engineOk \/ outcome = "returned")) =>
    /\ outcome = "returned"
    /\ retval.isObject
    /\ retval.serialport # Undefined
    /\ ports[retval.serialport].isOpen
    /\ retval.time >= 0

-----------------------------------------------------------------------------
(* The protocol engines: values shared by the three engines and the device *)

MaxImageLen == 4
MaxHalfPage == 2

\* byte values of the images: 0 and 0x14 (which is also RES_STK_INSYNC)
ImageBytes == {0, 20}
Images == UNION {[1..n -> ImageBytes] : n \in 0..MaxImageLen}
\* page sizes are even, like every pageSize of cpuDefs
PageSizes == {2 * k : k \in 1..MaxHalfPage}
\* the device's flash, in bytes; every image fits in it
FlashSize == 2 * MaxImageLen + 2 * MaxHalfPage

Min(a, b) == IF a < b THEN a ELSE b
Max(a, b) == IF a > b THEN a ELSE b

\* Buffer.subarray(start, end) and Buffer.slice(start, end) of Node
subarray(buf, start, end) ==
  LET n == Len(buf)
      s == IF start < 0 THEN Max(n + start, 0) ELSE Min(start, n)
      e == IF end < 0 THEN Max(n + end, 0) ELSE Min(end, n)
  IN IF e <= s THEN <<>> ELSE SubSeq(buf, s + 1, e)

\* Math.ceil(a / b)
ceilDiv(a, b) == (a + b - 1) \div b

\* ---- the device ---------------------------------------------------------

\* the device stores data at byte address at; bytes beyond its flash are lost
devStore(flash, at, data) ==
  [k \in DOMAIN flash |->
     IF k >= at /\ k < at + Len(data) THEN data[k - at + 1] ELSE flash[k]]

\* the device reads n bytes from byte address at; beyond its flash it reads 0xFF
devLoad(flash, at, n) ==
  [k \in 1..n |-> IF (at + k - 1) \in DOMAIN flash THEN flash[at + k - 1] ELSE 255]

ErasedFlash == [k \in 0..(FlashSize - 1) |-> 255]

\* a worn cell (one of d.bad) takes no programming: it reads as erased whatever was stored
worn(d, flash) == [k \in DOMAIN flash |-> IF k \in d.bad THEN 255 ELSE flash[k]]

\* the line after a fault: it was a single one, or the device is gone for good
LinkAfterFault(l) ==
  IF l.fault = "once" THEN [l EXCEPT !.fault = "spent"] ELSE [l EXCEPT !.fault = "dead"]

\* what can come back for a command: the device's answer (good), or, on a line
\* that may fail, nothing (silent) or a wrong reply (garbage) with the command lost
Answers(good, silent, garbage) ==
  (IF link.fault # "dead"
     THEN {[dev |-> good.dev, reply |-> good.reply, link |-> link]}
     ELSE {})
  \cup
  (IF link.fault \in {"once", "lose", "dead"}
     THEN {[dev |-> dev, reply |-> r, link |-> LinkAfterFault(link)] : r \in {silent, garbage}}
     ELSE {})

\* the data events of a reply: one chunk, or one chunk per byte
Chunks(bytes) ==
  IF bytes = <<>> THEN <<>>
  ELSE IF link.chunked THEN [k \in 1..Len(bytes) |-> <<bytes[k]>>]
  ELSE <<bytes>>

\* one command was written and its response awaited: the method goes on, or
\* bootload rejects with the error of the command (no engine catches it)
Step(op, answer, kind, nextPc, nextLoc) ==
  /\ sent' = Append(sent, op)
  /\ dev' = answer.dev
  /\ link' = answer.link
  /\ IF kind = "ok"
       THEN epc' = nextPc /\ loc' = nextLoc /\ eerr' = eerr
       ELSE epc' = "rejected" /\ eerr' = kind /\ loc' = loc

\* sync: a failed attempt is retried while attempts are left, whatever the error
\* its catch block has caught (loc.caught)
SyncStep(op, answer, kind, lastTry, nextPc, nextLoc) ==
  /\ sent' = Append(sent, op)
  /\ dev' = answer.dev
  /\ link' = answer.link
  /\ IF kind = "ok"
       THEN epc' = nextPc /\ loc' = [nextLoc EXCEPT !.caught = "none"] /\ eerr' = eerr
       ELSE IF lastTry
         THEN epc' = "rejected" /\ eerr' = kind /\ loc' = loc
         ELSE /\ epc' = epc
              /\ eerr' = eerr
              /\ loc' = [loc EXCEPT !.tries = loc.tries + 1, !.caught = kind]

\* ---- upload / verify of STK500v1 and STK500v2 ---------------------------

\* the whole pages only: Math.floor(hex.length / pageSize)
pageCountFloor(h, ps) == Len(h) \div ps

\* Math.ceil(hex.length / pageSize)
pageCount(h, ps) == ceilDiv(Len(h), ps)

\* const pageaddr = i * pageSize
pageaddr(i, ps) == i * ps

\* a byte address where the device expects a word address
useaddrBytes(pa) == pa

\* const useaddr = pageaddr >> 1
useaddr(pa) == pa \div 2

\* a slicing that never clips: hex.subarray(pageaddr, pageaddr + pageSize)
writeBytesWhole(h, ps, i) ==
  subarray(h, pageaddr(i, ps), pageaddr(i, ps) + ps)

\* hex.subarray(pageaddr, (hex.length > pageSize ? (pageaddr + pageSize) : hex.length - 1))
writeBytes(h, ps, i) ==
  subarray(h, pageaddr(i, ps),
           IF Len(h) > ps THEN pageaddr(i, ps) + ps ELSE Len(h) - 1)

\* a bootload that skips verify
stkAfterNoVerify(phase) ==
  CASE phase = "enter" -> "upload"
    [] phase = "upload" -> "leave"
    [] phase = "verify" -> "leave"
    [] OTHER -> "done"

\* bootload: enterProgrammingMode, upload, verify, exitProgrammingMode
stkAfter(phase) ==
  CASE phase = "enter" -> "upload"
    [] phase = "upload" -> "verify"
    [] phase = "verify" -> "leave"
    [] OTHER -> "done"

\* a phase over the pages of an empty image sends nothing
stkBegin(phase) ==
  IF pageCount(hex, pageSize) = 0
    THEN (IF phase = "upload" THEN stkAfter(stkAfter(phase))
          ELSE IF phase = "verify" THEN stkAfter(phase) ELSE phase)
    ELSE phase

\* after page i of a phase: the next page, or the next phase
stkNext(phase, i) ==
  IF i + 1 < pageCount(hex, pageSize)
    THEN [epc |-> phase, loc |-> [loc EXCEPT !.step = "addr", !.i = i + 1]]
    ELSE [epc |-> stkBegin(stkAfter(phase)), loc |-> [loc EXCEPT !.step = "addr", !.i = 0]]

-----------------------------------------------------------------------------
(* STK500v1 *)

RES_STK_OK == 16
RES_STK_INSYNC == 20
OK_RESPONSE == <<RES_STK_INSYNC, RES_STK_OK>>

\* cpuDefs: the signature of the profile; OtherSignature is another part
Signature == <<30, 149, 15>>
OtherSignature == <<30, 148, 6>>

\* receiveData: handleChunk folded over the data events that arrive before the timeout
RECURSIVE stk1ReceiveData(_, _, _, _)
stk1ReceiveData(chunks, buffer, started, responseLength) ==
  IF chunks = <<>> THEN [kind |-> "timeout", buffer |-> buffer]
  ELSE
    LET data == Head(chunks)
        starts == {k \in 0..(Len(data) - 1) : data[k + 1] = RES_STK_INSYNC}
        index == IF starts = {} THEN -1
                 ELSE CHOOSE k \in starts : \A m \in starts : k <= m
        nowStarted == started \/ index >= 0
        kept == IF started THEN data
                ELSE IF index >= 0 THEN subarray(data, index, Len(data) - index)
                ELSE <<>>
        buffer2 == IF nowStarted THEN buffer \o kept ELSE buffer
    IN IF Len(buffer2) > responseLength THEN [kind |-> "overflow", buffer |-> buffer2]
       ELSE IF Len(buffer2) = responseLength THEN [kind |-> "ok", buffer |-> buffer2]
       ELSE stk1ReceiveData(Tail(chunks), buffer2, nowStarted, responseLength)

\* sendCommand: write, then receive responseLength bytes and compare with responseData
stk1SendCommand(reply, responseData, responseLengthOpt) ==
  LET responseLength == IF responseLengthOpt # 0 THEN responseLengthOpt ELSE Len(responseData)
      r == stk1ReceiveData(Chunks(reply), <<>>, FALSE, responseLength)
  IN IF responseLength = 0 THEN "ok"
     ELSE IF r.kind # "ok" THEN r.kind
     ELSE IF r.buffer # responseData THEN "mismatch"
     ELSE "ok"

\* the STK500v1 bootloader on the device
DevStk1(d, c) ==
  CASE c.op = "READ_SIGN" ->
         [dev |-> d, reply |-> <<RES_STK_INSYNC>> \o d.sig \o <<RES_STK_OK>>]
    [] c.op = "ENTER_PROGMODE" ->
         [dev |-> [d EXCEPT !.prog = TRUE], reply |-> OK_RESPONSE]
    [] c.op = "LEAVE_PROGMODE" ->
         [dev |-> [d EXCEPT !.prog = FALSE], reply |-> OK_RESPONSE]
    [] c.op = "LOAD_ADDRESS" ->
         [dev |-> [d EXCEPT !.addr = c.lo + 256 * c.hi], reply |-> OK_RESPONSE]
    [] c.op = "PROG_PAGE" ->
         [dev |-> [d EXCEPT !.flash =
                     worn(d, devStore(d.flash, 2 * d.addr,
                                      subarray(c.data, 0, 256 * c.hi + c.lo)))],
          reply |-> OK_RESPONSE]
    [] c.op = "READ_PAGE" ->
         [dev |-> d,
          reply |-> <<RES_STK_INSYNC>> \o devLoad(d.flash, 2 * d.addr, 256 * c.hi + c.lo)
                      \o <<RES_STK_OK>>]
    [] OTHER -> [dev |-> d, reply |-> OK_RESPONSE]

\* RES_STK_INSYNC followed by RES_STK_FAILED
Stk1Answers(c) == Answers(DevStk1(dev, c), <<>>, <<20, 17>>)

\* reset(): two DTR/RTS pulses
Stk1Reset ==
  /\ proto = "stk500v1"
  /\ epc = "reset"
  /\ epc' = "sync"
  /\ loc' = [loc EXCEPT !.round = 1, !.tries = 1]
  /\ UNCHANGED <<espVars, dispVars, proto, hex, pageSize, dev, link, a9, sent, eerr>>

\* sync(3, timeout), three times over
Stk1Sync ==
  /\ proto = "stk500v1"
  /\ epc = "sync"
  /\ LET c == [op |-> "GET_SYNC"] IN
     \E a \in Stk1Answers(c) :
       SyncStep(c.op, a, stk1SendCommand(a.reply, OK_RESPONSE, 0), loc.tries >= 3,
                IF loc.round < 3 THEN "sync" ELSE "sign",
                [loc EXCEPT !.round = loc.round + 1, !.tries = 1])
  /\ UNCHANGED <<espVars, dispVars, proto, hex, pageSize, a9>>

\* verifySignature(opt.signature)
Stk1VerifySignature ==
  /\ proto = "stk500v1"
  /\ epc = "sign"
  /\ LET c == [op |-> "READ_SIGN"]
         expectedResponse == <<RES_STK_INSYNC>> \o Signature \o <<RES_STK_OK>>
     IN \E a \in Stk1Answers(c) :
          Step(c.op, a, stk1SendCommand(a.reply, expectedResponse, Len(expectedResponse)),
               "setopt", loc)
  /\ UNCHANGED <<espVars, dispVars, proto, hex, pageSize, a9>>

CMD_STK_SET_DEVICE == 66
SYNC_CRC_EOP == 32

\* bootload: opt.pageSize = opt.pageSize || 256, then the parameters of setOptions:
\* pagesizehigh: (opt.pageSize << 8) & 0xff, pagesizelow: opt.pageSize & 0xff
\* (a page size of 16 bits shifted by 8 stays within the 32 bits of <<)
bootloadParameters(optPageSize) ==
  LET ps == IF optPageSize = 0 THEN 256 ELSE optPageSize IN
  [pagesizehigh |-> (ps * 256) % 256, pagesizelow |-> ps % 256]

\* setOptions: the cmd array, every option that was not given being 0
setOptionsCmd(options) ==
  <<CMD_STK_SET_DEVICE, 0, 0, 0, 0, 0, 0, 0, 0, 0, 0, 0, 0,
    options.pagesizehigh, options.pagesizelow, 0, 0, 0, 0, 0, 0>>

\* setOptions(parameters)
Stk1SetOptions ==
  /\ proto = "stk500v1"
  /\ epc = "setopt"
  /\ LET c == [op |-> "SET_DEVICE",
               pagesizehigh |-> bootloadParameters(pageSize).pagesizehigh,
               pagesizelow |-> bootloadParameters(pageSize).pagesizelow]
     IN \E a \in Stk1Answers(c) :
          Step(c.op, a, stk1SendCommand(a.reply, OK_RESPONSE, 0), "enter", loc)
  /\ UNCHANGED <<espVars, dispVars, proto, hex, pageSize, a9>>

\* enterProgrammingMode()
Stk1EnterProgrammingMode ==
  /\ proto = "stk500v1"
  /\ epc = "enter"
  /\ LET c == [op |-> "ENTER_PROGMODE"] IN
     \E a \in Stk1Answers(c) :
       Step(c.op, a, stk1SendCommand(a.reply, OK_RESPONSE, 0),
            stkBegin(stkAfter("enter")), [loc EXCEPT !.step = "addr", !.i = 0])
  /\ UNCHANGED <<espVars, dispVars, proto, hex, pageSize, a9>>

\* loadAddress(useaddr), in upload and in verify
Stk1LoadAddress ==
  /\ proto = "stk500v1"
  /\ epc \in {"upload", "verify"}
  /\ loc.step = "addr"
  /\ LET ua == useaddr(pageaddr(loc.i, pageSize))
         c == [op |-> "LOAD_ADDRESS", lo |-> ua % 256, hi |-> (ua \div 256) % 256]
     IN \E a \in Stk1Answers(c) :
          Step(c.op, a, stk1SendCommand(a.reply, OK_RESPONSE, 0),
               epc, [loc EXCEPT !.step = "page"])
  /\ UNCHANGED <<espVars, dispVars, proto, hex, pageSize, a9>>

\* loadPage(writeBytes)
Stk1LoadPage ==
  /\ proto = "stk500v1"
  /\ epc = "upload"
  /\ loc.step = "page"
  /\ LET wb == writeBytes(hex, pageSize, loc.i)
         size == Len(wb)
         c == [op |-> "PROG_PAGE", hi |-> (size \div 256) % 256, lo |-> size % 256,
               data |-> wb]
         n == stkNext("upload", loc.i)
     IN \E a \in Stk1Answers(c) :
          Step(c.op, a, stk1SendCommand(a.reply, OK_RESPONSE, 0), n.epc, n.loc)
  /\ UNCHANGED <<espVars, dispVars, proto, hex, pageSize, a9>>

\* verifyPage(writeBytes, pageSize)
Stk1VerifyPage ==
  /\ proto = "stk500v1"
  /\ epc = "verify"
  /\ loc.step = "page"
  /\ LET wb == writeBytes(hex, pageSize, loc.i)
         expectedResponse == <<RES_STK_INSYNC>> \o wb \o <<RES_STK_OK>>
         size == Min(pageSize, Len(wb))
         c == [op |-> "READ_PAGE", hi |-> (size \div 256) % 256, lo |-> size % 256]
         n == stkNext("verify", loc.i)
     IN \E a \in Stk1Answers(c) :
          Step(c.op, a, stk1SendCommand(a.reply, expectedResponse, Len(expectedResponse)),
               n.epc, n.loc)
  /\ UNCHANGED <<espVars, dispVars, proto, hex, pageSize, a9>>

\* exitProgrammingMode()
Stk1ExitProgrammingMode ==
  /\ proto = "stk500v1"
  /\ epc = "leave"
  /\ LET c == [op |-> "LEAVE_PROGMODE"] IN
     \E a \in Stk1Answers(c) :
       Step(c.op, a, stk1SendCommand(a.reply, OK_RESPONSE, 0), "done", loc)
  /\ UNCHANGED <<espVars, dispVars, proto, hex, pageSize, a9>>

-----------------------------------------------------------------------------
(* STK500v2.  A message is modelled by its body: command id, status, data and *)
(* an optional trailing status; the framing around it is not modelled here.  *)

NoBody == [id |-> "none", status |-> "none", data |-> <<>>, tail |-> FALSE]

Body(id, status, data, tail) == [id |-> id, status |-> status, data |-> data, tail |-> tail]

\* the number of bytes of a body
bodyLen(b) ==
  IF b.id = "none" THEN 0 ELSE 2 + Len(b.data) + (IF b.tail THEN 1 ELSE 0)

\* sendCommand: write, receive a message (receiveData checks its length against
\* responseLength), compare with responseData, then the checkOK tests
stk2SendCommand(c, reply, responseData, checkOK) ==
  LET responseLength == bodyLen(responseData) IN
  IF reply.id = "none" THEN "timeout"
  ELSE IF responseLength # 0 /\ bodyLen(reply) # responseLength THEN "length"
  ELSE IF responseLength > 0 /\ reply # responseData THEN "mismatch"
  ELSE IF checkOK /\ reply.id # c.op THEN "response"
  ELSE IF checkOK /\ reply.status # "STATUS_CMD_OK" THEN "status"
  ELSE "ok"

\* the STK500v2 bootloader on the device; bit 31 of a loaded address is a flag
DevStk2(d, c) ==
  CASE c.op = "CMD_SPI_MULTI" ->
         [dev |-> d,
          reply |-> Body(c.op, "STATUS_CMD_OK", <<0, 0, 0, d.sig[c.index + 1]>>, TRUE)]
    [] c.op = "CMD_ENTER_PROGMODE_ISP" ->
         [dev |-> [d EXCEPT !.prog = TRUE], reply |-> Body(c.op, "STATUS_CMD_OK", <<>>, FALSE)]
    [] c.op = "CMD_LEAVE_PROGMODE_ISP" ->
         [dev |-> [d EXCEPT !.prog = FALSE], reply |-> Body(c.op, "STATUS_CMD_OK", <<>>, FALSE)]
    [] c.op = "CMD_LOAD_ADDRESS" ->
         [dev |-> [d EXCEPT !.addr = (c.msb % 128) * 16777216 + c.xsb * 65536
                                      + c.ysb * 256 + c.lsb],
          reply |-> Body(c.op, "STATUS_CMD_OK", <<>>, FALSE)]
    [] c.op = "CMD_PROGRAM_FLASH_ISP" ->
         [dev |-> [d EXCEPT !.flash =
                     worn(d, devStore(d.flash, 2 * d.addr,
                                      subarray(c.data, 0, 256 * c.bytesMsb + c.bytesLsb)))],
          reply |-> Body(c.op, "STATUS_CMD_OK", <<>>, FALSE)]
    [] c.op = "CMD_READ_FLASH_ISP" ->
         [dev |-> d,
          reply |-> Body(c.op, "STATUS_CMD_OK",
                         devLoad(d.flash, 2 * d.addr, 256 * c.bytesMsb + c.bytesLsb), TRUE)]
    [] OTHER -> [dev |-> d, reply |-> Body(c.op, "STATUS_CMD_OK", <<>>, FALSE)]

Stk2Answers(c) ==
  Answers(DevStk2(dev, c), NoBody, Body(c.op, "STATUS_CMD_FAILED", <<>>, FALSE))

\* reset(1, 1): three DTR/RTS settings
Stk2Reset ==
  /\ proto = "stk500v2"
  /\ epc = "reset"
  /\ epc' = "sync"
  /\ loc' = [loc EXCEPT !.tries = 1]
  /\ UNCHANGED <<espVars, dispVars, proto, hex, pageSize, dev, link, a9, sent, eerr>>

\* sync(5, timeout)
Stk2Sync ==
  /\ proto = "stk500v2"
  /\ epc = "sync"
  /\ LET c == [op |-> "CMD_SIGN_ON"] IN
     \E a \in Stk2Answers(c) :
       SyncStep(c.op, a, stk2SendCommand(c, a.reply, NoBody, TRUE), loc.tries >= 5,
                "sign", [loc EXCEPT !.i = 0, !.rdData = <<>>])
  /\ UNCHANGED <<espVars, dispVars, proto, hex, pageSize, a9>>

\* a comparison that stops at the first byte
signatureEqualsFirstByte(signature, reportedSignature) ==
  signature[1] = reportedSignature[1]

\* signature.equals(reportedSignature)
signatureEquals(signature, reportedSignature) ==
  signature = reportedSignature

\* verifySignature(opt.signature): getByte(0), getByte(1), getByte(2), then compare
Stk2VerifySignature ==
  /\ proto = "stk500v2"
  /\ epc = "sign"
  /\ LET c == [op |-> "CMD_SPI_MULTI", index |-> loc.i] IN
     \E a \in Stk2Answers(c) :
       LET k == stk2SendCommand(c, a.reply, NoBody, TRUE)
           res5 == IF Len(a.reply.data) >= 4 THEN a.reply.data[4] ELSE 0
           reportedSignature == Append(loc.rdData, res5)
           kind == IF k # "ok" THEN k
                   ELSE IF res5 = 0 THEN "signature response"
                   ELSE IF loc.i = 2 /\ ~signatureEquals(Signature, reportedSignature) THEN "signature"
                   ELSE "ok"
       IN Step(c.op, a, kind,
               IF loc.i = 2 THEN "enter" ELSE "sign",
               [loc EXCEPT !.i = (loc.i + 1) % 3, !.rdData = reportedSignature])
  /\ UNCHANGED <<espVars, dispVars, proto, hex, pageSize, a9>>

\* enterProgrammingMode(opt)
Stk2EnterProgrammingMode ==
  /\ proto = "stk500v2"
  /\ epc = "enter"
  /\ LET c == [op |-> "CMD_ENTER_PROGMODE_ISP"] IN
     \E a \in Stk2Answers(c) :
       Step(c.op, a, stk2SendCommand(c, a.reply, NoBody, TRUE),
            stkBegin(stkAfter("enter")), [loc EXCEPT !.step = "addr", !.i = 0])
  /\ UNCHANGED <<espVars, dispVars, proto, hex, pageSize, a9>>

\* loadAddress(useaddr), in upload and in verify
Stk2LoadAddress ==
  /\ proto = "stk500v2"
  /\ epc \in {"upload", "verify"}
  /\ loc.step = "addr"
  /\ LET ua == useaddr(pageaddr(loc.i, pageSize))
         c == [op |-> "CMD_LOAD_ADDRESS",
               msb |-> 128 + ((ua \div 16777216) % 128),
               xsb |-> (ua \div 65536) % 256,
               ysb |-> (ua \div 256) % 256,
               lsb |-> ua % 256]
     IN \E a \in Stk2Answers(c) :
          Step(c.op, a, stk2SendCommand(c, a.reply, NoBody, TRUE),
               epc, [loc EXCEPT !.step = "page"])
  /\ UNCHANGED <<espVars, dispVars, proto, hex, pageSize, a9>>

\* loadPage(writeBytes)
Stk2LoadPage ==
  /\ proto = "stk500v2"
  /\ epc = "upload"
  /\ loc.step = "page"
  /\ LET wb == writeBytes(hex, pageSize, loc.i)
         c == [op |-> "CMD_PROGRAM_FLASH_ISP", bytesMsb |-> Len(wb) \div 256,
               bytesLsb |-> Len(wb) % 256, data |-> wb]
         n == stkNext("upload", loc.i)
     IN \E a \in Stk2Answers(c) :
          Step(c.op, a, stk2SendCommand(c, a.reply, NoBody, TRUE), n.epc, n.loc)
  /\ UNCHANGED <<espVars, dispVars, proto, hex, pageSize, a9>>

\* verifyPage(writeBytes)
Stk2VerifyPage ==
  /\ proto = "stk500v2"
  /\ epc = "verify"
  /\ loc.step = "page"
  /\ LET wb == writeBytes(hex, pageSize, loc.i)
         c == [op |-> "CMD_READ_FLASH_ISP", bytesMsb |-> Len(wb) \div 256,
               bytesLsb |-> Len(wb) % 256]
         responseData == Body("CMD_READ_FLASH_ISP", "STATUS_CMD_OK", wb, TRUE)
         n == stkNext("verify", loc.i)
     IN \E a \in Stk2Answers(c) :
          Step(c.op, a, stk2SendCommand(c, a.reply, responseData, FALSE), n.epc, n.loc)
  /\ UNCHANGED <<espVars, dispVars, proto, hex, pageSize, a9>>

\* exitProgrammingMode()
Stk2ExitProgrammingMode ==
  /\ proto = "stk500v2"
  /\ epc = "leave"
  /\ LET c == [op |-> "CMD_LEAVE_PROGMODE_ISP"] IN
     \E a \in Stk2Answers(c) :
       Step(c.op, a, stk2SendCommand(c, a.reply, NoBody, TRUE), "done", loc)
  /\ UNCHANGED <<espVars, dispVars, proto, hex, pageSize, a9>>

-----------------------------------------------------------------------------
(* AVR109 *)

RES_EMPTY == 13
RES_UNKNOWN == 63

\* 'Y', 'N'
YES == <<89>>
NO == <<78>>

\* 'LUFACDC'
SoftwareId == <<76, 85, 70, 65, 67, 68, 67>>
\* 'CATERIN', the identifier of another AVR109 bootloader
OtherSoftwareId == <<67, 65, 84, 69, 82, 73, 78>>

NoTemp == [k \in 0..(FlashSize - 1) |-> -1]

\* the AVR109 bootloader on the device: addresses are word addresses, 'c'/'C' fill
\* the temporary page buffer a word at a time, 'm' writes the page that holds the
\* address, 'R' answers a word high byte first
DevA109(d, c) ==
  CASE c.op = "S" -> [dev |-> d, reply |-> d.swid]
    [] c.op = "V" -> [dev |-> d, reply |-> <<49, 48>>]
    [] c.op = "v" -> [dev |-> d, reply |-> IF d.hwver THEN <<49, 48>> ELSE <<RES_UNKNOWN>>]
    [] c.op = "p" -> [dev |-> d, reply |-> <<83>>]
    [] c.op = "a" -> [dev |-> d, reply |-> IF d.auto THEN YES ELSE NO]
    [] c.op = "b" ->
         [dev |-> d,
          reply |-> IF d.block THEN YES \o <<d.bufSize \div 256, d.bufSize % 256>>
                    ELSE <<RES_UNKNOWN>>]
    [] c.op = "t" -> [dev |-> d, reply |-> <<68, 0>>]
    [] c.op = "P" -> [dev |-> [d EXCEPT !.prog = TRUE], reply |-> <<RES_EMPTY>>]
    [] c.op = "L" -> [dev |-> [d EXCEPT !.prog = FALSE], reply |-> <<RES_EMPTY>>]
    [] c.op = "e" ->
         [dev |-> [d EXCEPT !.flash = ErasedFlash, !.temp = NoTemp], reply |-> <<RES_EMPTY>>]
    [] c.op = "A" -> [dev |-> [d EXCEPT !.addr = 256 * c.hi + c.lo], reply |-> <<RES_EMPTY>>]
    [] c.op = "c" -> [dev |-> [d EXCEPT !.latch = c.lo], reply |-> <<RES_EMPTY>>]
    [] c.op = "C" ->
         [dev |-> [d EXCEPT !.temp = devStore(d.temp, 2 * d.addr, <<d.latch, c.lo>>),
                            !.addr = IF d.auto THEN d.addr + 1 ELSE d.addr],
          reply |-> <<RES_EMPTY>>]
    [] c.op = "m" ->
         [dev |-> [d EXCEPT
                     !.flash = worn(d, [k \in DOMAIN d.flash |->
                                  IF d.temp[k] # -1
                                     /\ k \div d.bufSize = (2 * d.addr) \div d.bufSize
                                    THEN d.temp[k] ELSE d.flash[k]]),
                     !.temp = NoTemp],
          reply |-> <<RES_EMPTY>>]
    [] c.op = "R" ->
         [dev |-> [d EXCEPT !.addr = IF d.auto THEN d.addr + 1 ELSE d.addr],
          reply |-> LET w == devLoad(d.flash, 2 * d.addr, 2) IN <<w[2], w[1]>>]
    [] c.op = "B" ->
         [dev |-> [d EXCEPT
                     !.flash = worn(d, devStore(d.flash, 2 * d.addr,
                                                subarray(c.data, 0, 256 * c.hi + c.lo))),
                     !.addr = IF d.auto THEN d.addr + ceilDiv(256 * c.hi + c.lo, 2)
                              ELSE d.addr],
          reply |-> <<RES_EMPTY>>]
    [] c.op = "g" ->
         [dev |-> [d EXCEPT !.addr = IF d.auto THEN d.addr + ceilDiv(256 * c.hi + c.lo, 2)
                                     ELSE d.addr],
          reply |-> devLoad(d.flash, 2 * d.addr, 256 * c.hi + c.lo)]
    [] OTHER -> [dev |-> d, reply |-> <<RES_EMPTY>>]

\* '!' is no answer of the protocol
A109Answers(c) == Answers(DevA109(dev, c), <<>>, <<33>>)

\* recv: handleChunk folded over the data events that arrive before the timeout;
\* rest is what arrives after the listener was removed
RECURSIVE a109Recv(_, _, _, _)
a109Recv(chunks, buffer, responseLength, readUntilNull) ==
  IF chunks = <<>> THEN [kind |-> "timeout", data |-> buffer, rest |-> <<>>]
  ELSE
    LET data == Head(chunks)
        nulls == {k \in 0..(Len(data) - 1) : data[k + 1] = 0}
        indexOf0 == IF nulls = {} THEN -1 ELSE CHOOSE k \in nulls : \A m \in nulls : k <= m
        buffer2 == buffer \o data
    IN IF readUntilNull /\ indexOf0 # -1
         THEN [kind |-> "ok", data |-> buffer \o subarray(data, 0, indexOf0),
               rest |-> Tail(chunks)]
       ELSE IF ~readUntilNull /\ Len(buffer2) > responseLength
         THEN [kind |-> "overflow", data |-> buffer2, rest |-> Tail(chunks)]
       ELSE IF ~readUntilNull /\ Len(buffer2) = responseLength
         THEN [kind |-> "ok", data |-> buffer2, rest |-> Tail(chunks)]
       ELSE a109Recv(Tail(chunks), buffer2, responseLength, readUntilNull)

\* bytes of an earlier reply that are still in flight arrive while the next
\* command listens, or arrived before its listener was attached and are gone
Strays == IF link.stray = <<>> THEN {<<>>} ELSE {<<>>, link.stray}

\* cmd({cmd, len, readUntilNull}): attach the listener, send, await the data
a109Cmd(c, len, readUntilNull) ==
  UNION {
    { LET r == a109Recv(s \o Chunks(a.reply), <<>>, IF len # 0 THEN len ELSE 1, readUntilNull)
      IN [kind |-> IF r.kind # "ok" THEN r.kind
                   ELSE IF len = 0 /\ ~readUntilNull
                           /\ r.data[1] # RES_EMPTY /\ r.data[1] # RES_UNKNOWN
                     THEN "failed"
                   ELSE "ok",
          data |-> r.data,
          answer |-> [dev |-> a.dev, link |-> [a.link EXCEPT !.stray = r.rest]]]
      : s \in Strays }
    : a \in A109Answers(c) }

Target(e, l) == [epc |-> e, loc |-> l, eerr |-> "none"]
Fail(kind) == [epc |-> "rejected", loc |-> loc, eerr |-> kind]

\* one cmd of a method: the method goes on to target, or bootload rejects
Cmd(op, o, target) ==
  /\ sent' = Append(sent, op)
  /\ dev' = o.answer.dev
  /\ link' = o.answer.link
  /\ LET t == IF o.kind = "ok" THEN target ELSE Fail(o.kind) IN
       epc' = t.epc /\ loc' = t.loc /\ eerr' = t.eerr

\* setAddr(addr): cmd.writeUInt16BE(addr, 1)
setAddr(addr) == [op |-> "A", hi |-> addr \div 256, lo |-> addr % 256]

\* this.bufferSize || 128
blockSize == IF a9.bufferSize # 0 THEN a9.bufferSize ELSE 128

\* Buffer.alloc(len)
alloc(len) == [k \in 1..len |-> 0]

\* data[index] = value: a write outside the buffer is dropped, undefined is stored as 0
bufSet(buf, index, value) ==
  IF index < Len(buf) THEN [buf EXCEPT ![index + 1] = value] ELSE buf

\* buff[index]: undefined outside the buffer
bufGet(buf, index) == IF index < Len(buf) THEN buf[index + 1] ELSE 0

\* verify: rdData.equals(data), and bootload's throw when it is false
a109VerifyEnd(l, rd) ==
  IF rd = hex THEN Target("leave", [l EXCEPT !.rdData = rd])
  ELSE [epc |-> "rejected", loc |-> [l EXCEPT !.rdData = rd], eerr |-> "Verification failed"]

\* verify(data, 0) -> pagedRead(0, data.length)
a109VerifyStart(l) ==
  LET rd == alloc(Len(hex)) IN
  IF ~a9.useBlockMode
    THEN Target("verify", [l EXCEPT !.step = "setAddr0", !.addr = 0, !.rdData = rd])
  ELSE IF ceilDiv(Len(hex), blockSize) = 0 THEN a109VerifyEnd(l, rd)
  ELSE Target("verify", [l EXCEPT !.step = "addr", !.i = 0, !.rdData = rd])

\* program(data, 0, pageSize) -> pagedWrite
a109ProgramStart(l) ==
  IF ~a9.useBlockMode
    THEN Target("program", [l EXCEPT !.step = "setAddr0", !.addr = 0, !.pageAddr = 0,
                                     !.pageBytes = pageSize, !.pend = FALSE])
  ELSE IF ceilDiv(Len(hex), blockSize) = 0 THEN a109VerifyStart(l)
  ELSE Target("program", [l EXCEPT !.step = "addr", !.i = 0])

\* sync(count): RETURN_SOFTWARE_ID, sent again after a receive timeout
A109Sync ==
  /\ proto = "avr109"
  /\ epc = "sync"
  /\ sent' = Append(sent, "S")
  /\ \E o \in a109Cmd([op |-> "S"], 7, FALSE) :
       /\ dev' = o.answer.dev
       /\ link' = o.answer.link
       /\ IF o.kind = "ok"
            THEN epc' = "init" /\ loc' = [loc EXCEPT !.step = "S"] /\ eerr' = eerr
          ELSE IF o.kind # "timeout"
            THEN epc' = "rejected" /\ eerr' = o.kind /\ loc' = loc
          ELSE IF loc.tries > 5
            THEN epc' = "rejected" /\ eerr' = "Failed to connect to bootloader" /\ loc' = loc
          ELSE epc' = epc /\ eerr' = eerr /\ loc' = [loc EXCEPT !.tries = loc.tries + 1]
  /\ UNCHANGED <<espVars, dispVars, proto, hex, pageSize, a9>>

\* the commands of init(), in order
a109InitCmd(step) ==
  CASE step = "S" -> [c |-> [op |-> "S"], len |-> 7, un |-> FALSE]
    [] step = "V" -> [c |-> [op |-> "V"], len |-> 2, un |-> FALSE]
    [] step = "v" -> [c |-> [op |-> "v"], len |-> 1, un |-> FALSE]
    [] step = "v2" -> [c |-> [op |-> "v"], len |-> 2, un |-> FALSE]
    [] step = "p" -> [c |-> [op |-> "p"], len |-> 1, un |-> FALSE]
    [] step = "a" -> [c |-> [op |-> "a"], len |-> 1, un |-> FALSE]
    [] step = "b" -> [c |-> [op |-> "b"], len |-> 3, un |-> FALSE]
    [] step = "t" -> [c |-> [op |-> "t"], len |-> 0, un |-> TRUE]
    [] step = "T" -> [c |-> [op |-> "T", lo |-> a9.deviceCode], len |-> 0, un |-> FALSE]
    [] OTHER -> [c |-> [op |-> "P"], len |-> 0, un |-> FALSE]

\* what init() does with the data of a command: the next command and the fields it sets
a109InitNext(step, data) ==
  LET go(s) == [t |-> Target("init", [loc EXCEPT !.step = s]), a9 |-> a9] IN
  CASE step = "S" -> go("V")
    [] step = "V" -> go("v")
    [] step = "v" -> IF data[1] = RES_UNKNOWN THEN go("p") ELSE go("v2")
    [] step = "v2" -> go("p")
    [] step = "p" -> go("a")
    [] step = "a" ->
         IF a9.testBlockMode
           THEN [t |-> Target("init", [loc EXCEPT !.step = "b"]),
                 a9 |-> [a9 EXCEPT !.hasAutoIncrAddr = (data = YES)]]
           ELSE [t |-> Target("init", [loc EXCEPT !.step = "t"]),
                 a9 |-> [a9 EXCEPT !.hasAutoIncrAddr = (data = YES), !.useBlockMode = FALSE]]
    [] step = "b" ->
         [t |-> Target("init", [loc EXCEPT !.step = "t"]),
          a9 |-> IF subarray(data, 0, 1) = YES
                   THEN [a9 EXCEPT !.useBlockMode = TRUE,
                                   !.bufferSize = 256 * data[2] + data[3]]
                   ELSE [a9 EXCEPT !.useBlockMode = FALSE]]
    [] step = "t" ->
         IF Len(data) = 0
           THEN [t |-> Fail("No devices supported by programmer."), a9 |-> a9]
           ELSE [t |-> Target("init", [loc EXCEPT !.step = "T"]),
                 a9 |-> IF a9.deviceCode = 0 THEN [a9 EXCEPT !.deviceCode = data[1]] ELSE a9]
    [] step = "T" -> go("P")
    [] OTHER -> [t |-> Target("erase", loc), a9 |-> a9]

\* init(): one command of it
A109Init ==
  /\ proto = "avr109"
  /\ epc = "init"
  /\ LET ic == a109InitCmd(loc.step) IN
     \E o \in a109Cmd(ic.c, ic.len, ic.un) :
       LET n == IF o.kind = "ok" THEN a109InitNext(loc.step, o.data)
                ELSE [t |-> Fail(o.kind), a9 |-> a9]
       \* n.t is already the rejection when the command failed
       IN /\ Cmd(ic.c.op, [o EXCEPT !.kind = "ok"], n.t)
          /\ a9' = n.a9
  /\ UNCHANGED <<espVars, dispVars, proto, hex, pageSize>>

\* chipErase(opt.chipEraseDelay)
A109ChipErase ==
  /\ proto = "avr109"
  /\ epc = "erase"
  /\ \E o \in a109Cmd([op |-> "e"], 0, FALSE) : Cmd("e", o, a109ProgramStart(loc))
  /\ UNCHANGED <<espVars, dispVars, proto, hex, pageSize, a9>>

\* the top of while (addr < maxAddr) in pagedWriteFlash, and what follows the loop
a109WriteLoop(l) ==
  IF l.addr < Len(hex) THEN Target("program", [l EXCEPT !.step = "byte"])
  ELSE IF l.pend THEN Target("program", [l EXCEPT !.step = "finAddr"])
  ELSE a109VerifyStart(l)

\* pagedWriteFlash(data, 0, pageSize): one command of it
A109PagedWriteFlash ==
  /\ proto = "avr109"
  /\ epc = "program"
  /\ ~a9.useBlockMode
  /\ LET s == loc.step
         c == CASE s = "setAddr0" -> setAddr(loc.pageAddr)
                [] s = "byte" -> [op |-> IF loc.addr % 2 = 0 THEN "c" ELSE "C",
                                  lo |-> hex[loc.addr + 1]]
                [] s \in {"preAddr", "finAddr"} -> setAddr(loc.pageAddr \div 2)
                [] s \in {"postAddr", "noIncAddr"} -> setAddr(loc.addr \div 2)
                [] OTHER -> [op |-> "m"]
         afterByte == [loc EXCEPT !.addr = loc.addr + 1, !.pageBytes = loc.pageBytes - 1,
                                  !.pend = TRUE]
         target ==
           CASE s = "setAddr0" -> a109WriteLoop(loc)
             [] s = "byte" ->
                  IF afterByte.pageBytes = 0
                    THEN Target("program", [afterByte EXCEPT !.step = "preAddr"])
                  ELSE IF ~a9.hasAutoIncrAddr /\ afterByte.addr % 2 = 0
                    THEN Target("program", [afterByte EXCEPT !.step = "noIncAddr"])
                  ELSE a109WriteLoop(afterByte)
             [] s = "preAddr" -> Target("program", [loc EXCEPT !.step = "m"])
             [] s = "m" -> Target("program", [loc EXCEPT !.step = "postAddr", !.pend = FALSE])
             [] s = "postAddr" ->
                  a109WriteLoop([loc EXCEPT !.pageAddr = loc.addr, !.pageBytes = pageSize])
             [] s = "noIncAddr" -> a109WriteLoop(loc)
             [] s = "finAddr" -> Target("program", [loc EXCEPT !.step = "finM"])
             [] OTHER -> a109VerifyStart(loc)
     IN \E o \in a109Cmd(c, 0, FALSE) : Cmd(c.op, o, target)
  /\ UNCHANGED <<espVars, dispVars, proto, hex, pageSize, a9>>

\* blockWrite(data, 0): one command of it
A109BlockWrite ==
  /\ proto = "avr109"
  /\ epc = "program"
  /\ a9.useBlockMode
  /\ LET cursor == loc.i * blockSize
         page == subarray(hex, cursor, Min(cursor + blockSize, Len(hex)))
         c == IF loc.step = "addr" THEN setAddr((0 + cursor) \div 2)
              ELSE [op |-> "B", hi |-> Len(page) \div 256, lo |-> Len(page) % 256,
                    data |-> page]
         target ==
           IF loc.step = "addr" THEN Target("program", [loc EXCEPT !.step = "block"])
           ELSE IF loc.i + 1 < ceilDiv(Len(hex), blockSize)
             THEN Target("program",
                         [loc EXCEPT !.i = loc.i + 1,
                                     !.step = IF ~a9.hasAutoIncrAddr THEN "addr" ELSE "block"])
           ELSE a109VerifyStart(loc)
     IN \E o \in a109Cmd(c, 0, FALSE) : Cmd(c.op, o, target)
  /\ UNCHANGED <<espVars, dispVars, proto, hex, pageSize, a9>>

\* blockRead(0, data.length): one command of it, and verify's comparison after the last
A109BlockRead ==
  /\ proto = "avr109"
  /\ epc = "verify"
  /\ a9.useBlockMode
  /\ LET cursor == loc.i * blockSize
         readSize == Min(blockSize, Len(hex) - cursor)
         c == IF loc.step = "addr" THEN setAddr((0 + cursor) \div 2)
              ELSE [op |-> "g", hi |-> readSize \div 256, lo |-> readSize % 256]
     IN \E o \in a109Cmd(c, IF loc.step = "addr" THEN 0 ELSE readSize, FALSE) :
          LET data == [k \in 1..Len(loc.rdData) |->
                         IF k > cursor /\ k <= cursor + Len(o.data)
                           THEN o.data[k - cursor] ELSE loc.rdData[k]]
              target ==
                IF loc.step = "addr" THEN Target("verify", [loc EXCEPT !.step = "block"])
                ELSE IF loc.i + 1 < ceilDiv(Len(hex), blockSize)
                  THEN Target("verify",
                              [loc EXCEPT !.i = loc.i + 1, !.rdData = data,
                                          !.step = IF ~a9.hasAutoIncrAddr THEN "addr"
                                                   ELSE "block"])
                ELSE a109VerifyEnd(loc, data)
          IN Cmd(c.op, o, target)
  /\ UNCHANGED <<espVars, dispVars, proto, hex, pageSize, a9>>

\* the top of while (addr < maxAddr) in pagedReadBytes, and verify's comparison after it
a109ReadLoop(l) ==
  IF l.addr < Len(hex) THEN Target("verify", [l EXCEPT !.step = "R"])
  ELSE a109VerifyEnd(l, l.rdData)

\* pagedReadBytes(0, data.length): one command of it
A109PagedReadBytes ==
  /\ proto = "avr109"
  /\ epc = "verify"
  /\ ~a9.useBlockMode
  /\ LET s == loc.step
         c == CASE s = "setAddr0" -> setAddr(loc.addr)
                [] s = "R" -> [op |-> "R"]
                [] OTHER -> setAddr(loc.addr \div 2)
     IN \E o \in a109Cmd(c, IF s = "R" THEN 1 ELSE 0, FALSE) :
          LET buff == o.data
              data == bufSet(bufSet(loc.rdData, loc.addr, bufGet(buff, 1)),
                             loc.addr + 1, bufGet(buff, 0))
              afterR == [loc EXCEPT !.rdData = data, !.addr = loc.addr + 2]
              target ==
                CASE s = "setAddr0" -> a109ReadLoop(loc)
                  [] s = "R" -> IF ~a9.hasAutoIncrAddr
                                  THEN Target("verify", [afterR EXCEPT !.step = "noIncAddr"])
                                  ELSE a109ReadLoop(afterR)
                  [] OTHER -> a109ReadLoop(loc)
          IN Cmd(c.op, o, target)
  /\ UNCHANGED <<espVars, dispVars, proto, hex, pageSize, a9>>

\* leaveProgrammingMode()
A109LeaveProgrammingMode ==
  /\ proto = "avr109"
  /\ epc = "leave"
  /\ \E o \in a109Cmd([op |-> "L"], 0, FALSE) : Cmd("L", o, Target("exit", loc))
  /\ UNCHANGED <<espVars, dispVars, proto, hex, pageSize, a9>>

\* exitBootloader(): CMD_EXIT_BOOTLOADER; closing and reopening the ports is in Spec
A109ExitBootloader ==
  /\ proto = "avr109"
  /\ epc = "exit"
  /\ \E o \in a109Cmd([op |-> "E"], 0, FALSE) : Cmd("E", o, Target("done", loc))
  /\ UNCHANGED <<espVars, dispVars, proto, hex, pageSize, a9>>

-----------------------------------------------------------------------------
(* One bootload, command by command *)

\* the dispatcher is inside avr.upload, awaiting uploader.bootload
DispAwaiting ==
  /\ ver = "current"
  /\ env = "node"
  /\ cfg = [tool |-> "avr", cpu |-> "atmega328p", speed |-> 0,
            hasBin |-> TRUE, hasFiles |-> FALSE, hasReconnect |-> TRUE]
  /\ ports = [p \in PortIds |->
                IF p = "input" THEN [isOpen |-> TRUE, baudRate |-> BAUD_DEFAULT]
                ELSE [isOpen |-> FALSE, baudRate |-> BAUD_TOUCH]]
  /\ pc = "engine"
  /\ entryBaud = BAUD_DEFAULT
  /\ existingBaud = BAUD_DEFAULT
  /\ engSerial = "input"
  /\ orgSpeed = BAUD_DEFAULT
  /\ newPort = Undefined
  /\ outcome = "running"
  /\ err = "none"
  /\ ops = {}
  /\ engine = "none"
  /\ engineOk = FALSE
  /\ retval = NoValue
  /\ clock = 0
  /\ ts = 0
  /\ supported = {}
  /\ reconnects = <<>>

\* the cells of the flash that may be worn: none, or one that an image reaches
WornCells == {{}} \cup {{k} : k \in 0..(MaxImageLen - 1)}

\* a bootload about to start, over a line of one of the fault modes, against a
\* device with one of the worn cells and one of the software identifiers
InitWith(faults, cells, swids, hwvers) ==
  /\ DispAwaiting
  /\ LoaderIdle
  /\ proto \in {"stk500v1", "stk500v2", "avr109"}
  /\ hex \in Images
  /\ pageSize \in PageSizes
  /\ \E sig \in {Signature, OtherSignature}, auto \in BOOLEAN, block \in BOOLEAN,
        bad \in cells, swid \in swids, hwver \in hwvers :
       /\ proto = "avr109" => sig = Signature
       /\ proto # "avr109" => (auto /\ block /\ swid = SoftwareId /\ ~hwver)
       /\ dev = [flash |-> ErasedFlash, addr |-> 0, prog |-> FALSE, sig |-> sig,
                 auto |-> auto, block |-> block, bufSize |-> pageSize, hwver |-> hwver,
                 latch |-> 0, temp |-> NoTemp, bad |-> bad, swid |-> swid]
  /\ \E fault \in faults, chunked \in BOOLEAN :
       /\ proto = "stk500v2" => ~chunked
       /\ link = [fault |-> fault, chunked |-> chunked, stray |-> <<>>]
  /\ epc = IF proto = "avr109" THEN "sync" ELSE "reset"
  /\ loc = NoLocals
  /\ \E tbm \in BOOLEAN :
       /\ proto # "avr109" => tbm
       /\ a9 = [hasAutoIncrAddr |-> FALSE, useBlockMode |-> FALSE, bufferSize |-> 0,
                testBlockMode |-> tbm, deviceCode |-> 0]
  /\ sent = <<>>
  /\ eerr = "none"

\* a sound device on a line that may fail
InitEngine == InitWith({"good", "once", "lose"}, {{}}, {SoftwareId}, {FALSE})

\* a device that may be defective, or one that knows its hardware version, on a
\* line that does not fail
InitDefect ==
  \/ InitWith({"good"}, WornCells, {SoftwareId, OtherSoftwareId}, {FALSE})
  \/ InitWith({"good"}, {{}}, {SoftwareId}, {TRUE})

NextEngine ==
  \/ Stk1Reset
  \/ Stk1Sync
  \/ Stk1VerifySignature
  \/ Stk1SetOptions
  \/ Stk1EnterProgrammingMode
  \/ Stk1LoadAddress
  \/ Stk1LoadPage
  \/ Stk1VerifyPage
  \/ Stk1ExitProgrammingMode
  \/ Stk2Reset
  \/ Stk2Sync
  \/ Stk2VerifySignature
  \/ Stk2EnterProgrammingMode
  \/ Stk2LoadAddress
  \/ Stk2LoadPage
  \/ Stk2VerifyPage
  \/ Stk2ExitProgrammingMode
  \/ A109Sync
  \/ A109Init
  \/ A109ChipErase
  \/ A109PagedWriteFlash
  \/ A109BlockWrite
  \/ A109BlockRead
  \/ A109PagedReadBytes
  \/ A109LeaveProgrammingMode
  \/ A109ExitBootloader

SpecEngine == InitEngine /\ [][NextEngine]_vars

SpecDefect == InitDefect /\ [][NextEngine]_vars

-----------------------------------------------------------------------------
(* Claims about the engines, checked under SpecEngine *)

PageWriteOps == {"PROG_PAGE", "CMD_PROGRAM_FLASH_ISP", "B", "m"}
VerifyReadOps == {"READ_PAGE", "CMD_READ_FLASH_ISP", "g", "R"}
EnterProgOps == {"ENTER_PROGMODE", "CMD_ENTER_PROGMODE_ISP", "P"}
LeaveProgOps == {"LEAVE_PROGMODE", "CMD_LEAVE_PROGMODE_ISP", "L"}

\* bootload has resolved or rejected
Exited == epc \in {"done", "rejected"}

\* the line never fails and the device is the part the profile names
Conformant ==
  link.fault = "good" /\ dev.sig = Signature /\ dev.bad = {} /\ dev.swid = SoftwareId

\* the device's flash holds the first n bytes of the image
FlashHolds(n) == \A k \in 0..(n - 1) : dev.flash[k] = hex[k + 1]

C8_LeavesProgModeOnFailure ==
  epc = "rejected" =>
    \A i \in 1..(Len(sent) - 1) :
      sent[i] \in EnterProgOps =>
        /\ \E j \in (i + 1)..Len(sent) : sent[j] \in LeaveProgOps
        /\ proto = "avr109" => \E j \in (i + 1)..Len(sent) : sent[j] = "E"

C10_A109RoundTrip ==
  (proto = "avr109" /\ Conformant /\ \E i \in 1..Len(sent) : sent[i] = "e") =>
    /\ epc # "rejected"
    /\ epc \in {"leave", "exit", "done"} => FlashHolds(Len(hex))

-----------------------------------------------------------------------------
(* Claims about defective devices, checked under SpecDefect *)

\* the slice that verify compares page i with, for each engine
sentSlice(i) ==
  IF proto = "avr109" THEN hex ELSE writeBytes(hex, pageSize, i)

\* the bytes the device holds where the slice of page i was sent
heldSlice(i) ==
  IF proto = "avr109" THEN devLoad(dev.flash, 0, Len(hex))
  ELSE devLoad(dev.flash, pageaddr(i, pageSize), Len(writeBytes(hex, pageSize, i)))

\* C11: bootload resolves only if every page the device read back during verify
\* was byte-equal to the slice sent for it; verify reads the flash last, so once
\* bootload has resolved the flash holds every slice.
C11_ResolvesOnlyIfReadBackEqual ==
  epc = "done" =>
    \A i \in 0..(Max(pageCount(hex, pageSize), 1) - 1) : heldSlice(i) = sentSlice(i)

\* C11 for STK500v1 and STK500v2
C11_StkResolvesOnlyIfReadBackEqual ==
  proto \in {"stk500v1", "stk500v2"} => C11_ResolvesOnlyIfReadBackEqual

-----------------------------------------------------------------------------
(* Claims about the AVR109 route of the dispatcher, checked under Spec *)

\* C19: when the AVR109 engine enters the bootloader it invokes the reconnect
\* callback exactly once, the original port being at 1200 baud and closed by
\* then, with baudRate equal to the speed of the request when there is one and
\* to 57600 otherwise
C19_ReconnectAtRequestSpeed ==
  LET calls == SelectSeq(reconnects, LAMBDA r : r.by = "enterBootloader") IN
    /\ Len(calls) <= 1
    /\ pc \in {"a109_open", "a109_proto", "a109_exit", "a109_return"} => Len(calls) = 1
    /\ \A k \in 1..Len(calls) :
         /\ calls[k].serial = [isOpen |-> FALSE, baudRate |-> BAUD_TOUCH]
         /\ calls[k].baudRate = IF cfg.speed # 0 THEN cfg.speed ELSE BAUD_AVR109

(* Claims about the ESP route of the dispatcher, checked under Spec *)

\* C12: if the ESP loader could not connect, or a flash command failed during
\* the write, upload with an ESP tool rejects: it never resolves when the image
\* has not been written.
C12_EspFailureRejects ==
  (pc = "exit" /\ engine = "esp" /\ ~engineOk) => outcome = "rejected"

(* Claims about the engines, checked under SpecEngine *)

ProgrammingOps ==
  {"ENTER_PROGMODE", "PROG_PAGE", "CMD_ENTER_PROGMODE_ISP", "CMD_PROGRAM_FLASH_ISP"}

\* C17: STK500v1 and STK500v2 write no enter-programming-mode and no
\* page-program command unless the device reported the signature of the
\* profile, and with a device of another signature bootload never gets past
\* the signature step other than by rejecting
C17_NoProgrammingWithoutSignature ==
  proto \in {"stk500v1", "stk500v2"} =>
    /\ (\E k \in 1..Len(sent) : sent[k] \in ProgrammingOps) => dev.sig = Signature
    /\ dev.sig # Signature => epc \in {"reset", "sync", "sign", "rejected"}

C17_Witness ==
  /\ proto = "stk500v2"
  /\ dev.sig = OtherSignature
  /\ link.fault = "good"
  /\ epc = "rejected"
  /\ eerr = "signature"
  /\ Len(SelectSeq(sent, LAMBDA op : op = "CMD_SPI_MULTI")) = 3

(* Claims about the engines facing a device that is not the expected one,  *)
(* checked under SpecDefect                                                 *)

\* C18: when the 7-character software id the device returns differs from the
\* expected one, AVR109 bootload sends no chip-erase, address or write command
\* and does not resolve
C18_OtherSoftwareIdRejects ==
  (proto = "avr109" /\ dev.swid # SoftwareId) =>
    /\ \A k \in 1..Len(sent) : sent[k] \notin {"e", "A", "c", "C", "m", "B"}
    /\ epc # "done"

-----------------------------------------------------------------------------
(* Packets: what a sender writes for a payload and what a receiver makes of  *)
(* the data events that carry it                                             *)

MaxPacketLen == 2
LongBodyLen == 258

\* a ^ b on bytes
RECURSIVE xor(_, _)
xor(a, b) ==
  IF a = 0 /\ b = 0 THEN 0
  ELSE (((a % 2) + (b % 2)) % 2) + (2 * xor(a \div 2, b \div 2))

\* the bytes of the data events, one after the other
RECURSIVE stream(_)
stream(events) == IF events = <<>> THEN <<>> ELSE Head(events) \o stream(Tail(events))

\* the data events of a byte stream cut after the positions in cuts
RECURSIVE split(_, _)
split(bytes, cuts) ==
  IF bytes = <<>> THEN <<>>
  ELSE LET inside == {c \in cuts : c < Len(bytes)}
           first == IF inside = {} THEN Len(bytes)
                    ELSE CHOOSE c \in inside : \A d \in inside : c <= d
       IN <<SubSeq(bytes, 1, first)>>
            \o split(SubSeq(bytes, first + 1, Len(bytes)), {c - first : c \in inside \ {first}})

\* ---- STK500v2 sendCommand: the message around a command -----------------

\* statics.MESSAGE_START and statics.TOKEN (stk500v2/constants)
MESSAGE_START == 27
TOKEN == 14

\* a checksum over the command alone
messageChecksumOfBody(message) ==
  LET RECURSIVE reduce(_, _)
      reduce(lo, hi) ==
        IF lo > hi THEN 0
        ELSE IF lo = hi THEN xor(0, message[lo])
        ELSE xor(reduce(lo, (lo + hi) \div 2), reduce(((lo + hi) \div 2) + 1, hi))
  IN reduce(6, Len(message))

\* (new Array(message.length)).fill(0).reduce((a, b, i) => a ^ message[i], 0)
\* (^ is associative and 0 ^ b = b, so the reduction from 0 over message[0],
\* message[1], ... is evaluated here by halves, which keeps it shallow)
messageChecksum(message) ==
  LET RECURSIVE reduce(_, _)
      reduce(lo, hi) ==
        IF lo > hi THEN 0
        ELSE IF lo = hi THEN xor(0, message[lo])
        ELSE xor(reduce(lo, (lo + hi) \div 2), reduce(((lo + hi) \div 2) + 1, hi))
  IN reduce(1, Len(message))

\* messageLen.writeUInt16BE(cmd.length, 0); prefix; message; checksum; fullMessage
fullMessage(sequence, cmd) ==
  LET messageLen == <<Len(cmd) \div 256, Len(cmd) % 256>>
      prefix == <<MESSAGE_START, sequence, messageLen[1], messageLen[2], TOKEN>>
      message == prefix \o cmd
  IN message \o <<messageChecksum(message)>>

\* the commands tried: short ones over bytes that also frame a message, and a
\* long one whose length needs both length bytes
Stk2Cmds ==
  UNION {[1..n -> {MESSAGE_START, TOKEN, 255}] : n \in 0..MaxPacketLen}
    \cup {[k \in 1..LongBodyLen |-> b] : b \in {1, 255}}

\* sendCommand up to await this.serial.write(fullMessage)
Stk2WriteMessage ==
  /\ pipe.kind = "stk2"
  /\ pipe.wire = <<>>
  /\ pipe' = [pipe EXCEPT !.wire = fullMessage(pipe.seq, pipe.xs)]
  /\ UNCHANGED <<dispVars, engVars, esp, ectl, edev, ecmds>>

\* ---- STK500v2 receiveData: the state machine over the incoming bytes -----

\* statics.ANSWER_CKSUM_ERROR (stk500v2/constants)
ANSWER_CKSUM_ERROR == 176

\* case 1 (sSEQNUM) of handleChunk: a byte that is not this.sequence changes nothing
seqnum(rx, byte) ==
  IF byte = rx.sequence
    THEN [rx EXCEPT !.sequence = (rx.sequence + 1) % 256, !.state = 2]
    ELSE rx

\* handleChunk over the bytes that arrive before the timer fires; the locals of
\* receiveData outlive a data event, so the cuts between events do not matter
RECURSIVE stk2ReceiveData(_, _, _)
stk2ReceiveData(bytes, rx0, responseLength) ==
  IF bytes = <<>> THEN [kind |-> "timeout", buffer |-> rx0.buffer, sequence |-> rx0.sequence]
  ELSE
    LET byte == Head(bytes)
        rx == [rx0 EXCEPT !.checksum = xor(rx0.checksum, byte)]
        settle(kind) == [kind |-> kind, buffer |-> rx.buffer, sequence |-> rx.sequence]
        go(next) == stk2ReceiveData(Tail(bytes), next, responseLength)
    IN CASE rx.state = 0 ->
              go(IF byte = MESSAGE_START
                   THEN [rx EXCEPT !.checksum = MESSAGE_START, !.state = 1]
                   ELSE rx)
         [] rx.state = 1 -> go(seqnum(rx, byte))
         [] rx.state = 2 -> go([rx EXCEPT !.length = byte * 256 + (rx.length % 256), !.state = 3])
         [] rx.state = 3 -> go([rx EXCEPT !.length = (rx.length \div 256) * 256 + byte, !.state = 4])
         [] rx.state = 4 ->
              go(IF byte = TOKEN THEN [rx EXCEPT !.state = 5, !.buffer = <<>>]
                 ELSE [rx EXCEPT !.state = 0])
         [] rx.state = 5 ->
              IF ~(rx.writeHead < rx.length) THEN settle("overflowed buffer")
              ELSE IF rx.writeHead = 0 /\ byte = ANSWER_CKSUM_ERROR
                THEN settle("previous packet sent with wrong checksum")
              ELSE go([rx EXCEPT !.buffer = Append(@, byte), !.writeHead = @ + 1,
                                 !.state = IF rx.writeHead + 1 = rx.length THEN 6 ELSE 5])
         [] OTHER ->
              IF rx.checksum # 0 THEN settle("checksum error")
              ELSE IF responseLength # 0 /\ rx.length # responseLength THEN settle("length")
              ELSE settle("ok")

\* the replies tried: short bodies, and one that holds the head of a message
Stk2ReplyBodies == {<<1>>, <<1, 0>>, <<1, 0, 1, TOKEN, 7>>}

\* receiveData(timeout) of the request of sequence pipe.seq while the port
\* delivers the message in pipe.chunks
Stk2ReceiveData ==
  /\ pipe.kind = "stk2recv"
  /\ pipe.chunks # <<>>
  /\ LET message == Head(pipe.chunks)
         r == stk2ReceiveData(message,
                              [state |-> 0, length |-> 0, writeHead |-> 0, checksum |-> 0,
                               buffer |-> <<>>, sequence |-> pipe.seq], 0)
     IN pipe' = [pipe EXCEPT !.wire = message, !.chunks = <<>>, !.buffer = r.buffer,
                             !.settled = r.kind]
  /\ UNCHANGED <<dispVars, engVars, esp, ectl, edev, ecmds>>

\* ---- STK500v1: the SET_DEVICE command ------------------------------------

\* the page sizes tried (0: the profile gives none): below, at and above 256
OptPageSizes == {0, 1, 128, 255, 256, 257, 4096, 65535}

\* setOptions(parameters) up to await this.serial.write(cmd) of sendCommand
Stk1WriteSetDevice ==
  /\ pipe.kind = "setdev"
  /\ pipe.wire = <<>>
  /\ pipe' = [pipe EXCEPT !.wire = setOptionsCmd(bootloadParameters(pipe.seq)) \o <<SYNC_CRC_EOP>>]
  /\ UNCHANGED <<dispVars, engVars, esp, ectl, edev, ecmds>>

\* ---- STK500v1: receiveData ------------------------------------------------

\* the replies awaited: OK_RESPONSE, and one that holds IN_SYNC twice
Stk1Replies == {OK_RESPONSE, <<RES_STK_INSYNC, RES_STK_INSYNC, RES_STK_OK>>}

\* n bytes that are not IN_SYNC
noise(n) == [k \in 1..n |-> 1]

\* receiveData(timeout, responseLength) while the port delivers pipe.seq bytes of
\* noise and then the reply pipe.xs, in data events cut at cuts; the timer fires
\* after the last data event if the promise is not settled by then
Stk1ReceiveData ==
  /\ pipe.kind = "stk1recv"
  /\ pipe.wire = <<>>
  /\ LET arriving == noise(pipe.seq) \o pipe.xs IN
       \E cuts \in SUBSET (1..(Len(arriving) - 1)) :
         LET r == stk1ReceiveData(split(arriving, cuts), <<>>, FALSE, Len(pipe.xs)) IN
         pipe' = [pipe EXCEPT !.wire = arriving, !.chunks = split(arriving, cuts),
                              !.buffer = r.buffer, !.settled = r.kind]
  /\ UNCHANGED <<dispVars, engVars, esp, ectl, edev, ecmds>>

\* ---- ESPLoader.write and ESPLoader.read: SLIP ----------------------------

SLIP_END == 192
SLIP_ESC == 219
SLIP_ESC_END == 220
SLIP_ESC_ESC == 221

\* write: the loop that fills slippedArr
RECURSIVE slippedArr(_)
slippedArr(data) ==
  IF data = <<>> THEN <<>>
  ELSE (IF Head(data) = SLIP_END THEN <<SLIP_ESC, SLIP_ESC_END>>
        ELSE IF Head(data) = SLIP_ESC THEN <<SLIP_ESC, SLIP_ESC_ESC>>
        ELSE <<Head(data)>>) \o slippedArr(Tail(data))

\* write: pkt = [0xC0, ...slippedArr, 0xC0]
slipPkt(data) == <<SLIP_END>> \o slippedArr(data) \o <<SLIP_END>>

\* handleChunk's loop over one data event: st carries started and the locals
\* pkt and inEscape, which every data event starts afresh
RECURSIVE chunkLoop(_, _, _)
chunkLoop(data, i, st) ==
  IF i > Len(data) THEN st
  ELSE LET byte == data[i] IN
    IF st.started THEN
      IF byte = SLIP_END THEN [st EXCEPT !.started = FALSE]
      ELSE IF byte = SLIP_ESC_END /\ st.inEscape
        THEN chunkLoop(data, i + 1, [st EXCEPT !.pkt = @ \o <<SLIP_END>>, !.inEscape = FALSE])
      ELSE IF byte = SLIP_ESC_ESC /\ st.inEscape
        THEN chunkLoop(data, i + 1, [st EXCEPT !.pkt = @ \o <<SLIP_ESC>>, !.inEscape = FALSE])
      ELSE IF byte = SLIP_ESC
        THEN chunkLoop(data, i + 1, [st EXCEPT !.inEscape = TRUE])
      ELSE chunkLoop(data, i + 1, [st EXCEPT !.pkt = @ \o <<byte>>, !.inEscape = FALSE])
    ELSE IF byte = SLIP_END
      THEN chunkLoop(data, i + 1, [st EXCEPT !.started = TRUE])
    ELSE chunkLoop(data, i + 1, st)

\* handleChunk with flush false: the reader after one data event
handleChunk(rd, data) ==
  LET st == chunkLoop(data, 1, [started |-> rd.started, pkt |-> <<>>, inEscape |-> FALSE])
      buffer == rd.buffer \o st.pkt
  IN [buffer |-> buffer,
      started |-> st.started,
      settled |-> IF buffer # <<>> /\ ~st.started THEN "resolved" ELSE "no"]

\* the payloads tried: every byte with a meaning in SLIP and one without
SlipBytes == {SLIP_END, SLIP_ESC, SLIP_ESC_END, SLIP_ESC_ESC, 1}
SlipPayloads == UNION {[1..n -> SlipBytes] : n \in 0..MaxPacketLen}

\* write(data), the port delivering pkt to the far end in data events cut at
\* cuts, a read(timeout, false) listening
EspWritePacket ==
  /\ pipe.kind = "slip"
  /\ pipe.wire = <<>>
  /\ LET pkt == slipPkt(pipe.xs) IN
       \E cuts \in SUBSET (1..(Len(pkt) - 1)) :
         pipe' = [pipe EXCEPT !.wire = pkt, !.chunks = split(pkt, cuts)]
  /\ UNCHANGED <<dispVars, engVars, esp, ectl, edev, ecmds>>

\* one data event reaches handleChunk
EspReadChunk ==
  /\ pipe.kind = "slip"
  /\ pipe.settled = "no"
  /\ pipe.chunks # <<>>
  /\ LET rd == handleChunk(pipe, Head(pipe.chunks)) IN
       pipe' = [pipe EXCEPT !.buffer = rd.buffer, !.started = rd.started,
                            !.settled = rd.settled, !.chunks = Tail(@)]
  /\ UNCHANGED <<dispVars, engVars, esp, ectl, edev, ecmds>>

\* the timer of read fires: finished(err) with flush false
EspReadTimeout ==
  /\ pipe.kind = "slip"
  /\ pipe.settled = "no"
  /\ pipe.wire # <<>>
  /\ pipe.chunks = <<>>
  /\ pipe' = [pipe EXCEPT !.settled = "rejected"]
  /\ UNCHANGED <<dispVars, engVars, esp, ectl, edev, ecmds>>

\* ---- ESPLoader.command and checkCommand: the response packet -------------

ESP_FLASH_BEGIN == 2
ESP_READ_REG == 10

\* #byteArrayToShort: buff.set(arr, 0); buff.readUInt16LE(0)
byteArrayToShort(arr) ==
  LET buff == [k \in 1..2 |-> IF k <= Len(arr) THEN arr[k] ELSE 0]
  IN buff[1] + (256 * buff[2])

\* command, from the packet that read has returned: the response data, or the
\* Invalid response error when the packet answers another op
espCommand(op, packet) ==
  LET command == packet[2]
      resDataSize == byteArrayToShort(subarray(packet, 2, 4))
      resData == subarray(packet, 8, 8 + resDataSize)
  IN IF op = 0 \/ command = op
       THEN [kind |-> "resolved", resData |-> resData]
       ELSE [kind |-> "rejected", resData |-> <<>>]

\* the status bytes that end a response: two of the stub, four of the ROM, for
\* success and for failure (failed flag, then the error code)
EspStatuses == {<<0, 0>>, <<1, 5>>, <<0, 0, 0, 0>>, <<1, 6, 0, 0>>}

\* a response packet: 0x01, op, the size of the data, the value, the data
espResponse(op, data) ==
  <<1, op, Len(data) % 256, Len(data) \div 256, 0, 0, 0, 0>> \o data

\* checkCommand({op}): command, then resp[1] or resp[0] is returned; what the
\* response data hold plays no part
EspCheckCommand ==
  /\ pipe.kind = "espresp"
  /\ pipe.settled = "no"
  /\ LET resp == espCommand(pipe.seq, pipe.wire) IN
       pipe' = [pipe EXCEPT !.settled = resp.kind, !.buffer = resp.resData]
  /\ UNCHANGED <<dispVars, engVars, esp, ectl, edev, ecmds>>

\* ---- #connectAttempt: the wait for the device to fall silent ---------------

\* the banner of a booting device: the data events still to come
Banners == {<<>>, <<<<1>>>>, <<<<1>>, <<1, 1>>>>}

\* handleChunk with flush true: Buffer.concat([buffer, data]) makes a new
\* buffer that is dropped, the buffer of read stays as it was
flushChunk(buffer, data) == buffer

\* a data event reaches handleChunk of read(500, true); pipe.wire keeps the
\* bytes that arrived in the running window
EspDrainData ==
  /\ pipe.kind = "drain"
  /\ pipe.settled = "no"
  /\ pipe.chunks # <<>>
  /\ pipe' = [pipe EXCEPT !.buffer = flushChunk(pipe.buffer, Head(pipe.chunks)),
                          !.wire = @ \o Head(pipe.chunks), !.chunks = Tail(@)]
  /\ UNCHANGED <<dispVars, engVars, esp, ectl, edev, ecmds>>

\* the timer of read(500, true) fires: finished(err) resolves if the buffer
\* holds bytes, and the loop reads again after its sleep; otherwise it rejects
\* with the timeout and the loop breaks: the SYNC commands follow
EspDrainTimeout ==
  /\ pipe.kind = "drain"
  /\ pipe.settled = "no"
  /\ pipe' = IF pipe.buffer # <<>>
               THEN [pipe EXCEPT !.buffer = <<>>, !.wire = <<>>, !.seq = @ + 1]
               ELSE [pipe EXCEPT !.settled = "drained"]
  /\ UNCHANGED <<dispVars, engVars, esp, ectl, edev, ecmds>>

\* ---- AVR109.reconnect: the callback raced against a timer -------------------

\* resolve and reject of a promise act on a pending promise only
settleOnce(p, how) == IF p.promise = "pending" THEN [p EXCEPT !.promise = how] ELSE p

\* the timer of 30 s fires: timedOut = true; reject(new Error('reconnect timed out'))
A109ReconnectTimeout ==
  /\ pipe.kind = "reconnect"
  /\ pipe.timer = "pending"
  /\ pipe' = settleOnce([pipe EXCEPT !.timer = "fired", !.timedOut = TRUE], "reconnect timed out")
  /\ UNCHANGED <<dispVars, engVars, esp, ectl, edev, ecmds>>

\* the callback delivers a port: clearTimeout(timeoutId); if (timedOut) return; resolve(...)
A109ReconnectThen ==
  /\ pipe.kind = "reconnect"
  /\ pipe.callback = "running"
  /\ LET p == [pipe EXCEPT !.callback = "resolved",
                           !.timer = IF @ = "pending" THEN "cleared" ELSE @]
     IN pipe' = IF p.timedOut THEN p ELSE settleOnce(p, "resolved")
  /\ UNCHANGED <<dispVars, engVars, esp, ectl, edev, ecmds>>

\* the callback rejects: .catch(reject)
A109ReconnectCatch ==
  /\ pipe.kind = "reconnect"
  /\ pipe.callback = "running"
  /\ pipe' = settleOnce([pipe EXCEPT !.callback = "rejected"], "rejected")
  /\ UNCHANGED <<dispVars, engVars, esp, ectl, edev, ecmds>>

\* ---- StubLoader.loadStub: the cache of stubs shared by every loader ----

\* chipName.replace(/-/g, '').toLowerCase().replace('esp', '')
stubNameOf(chipName) ==
  CASE chipName = "ESP32" -> "32"
    [] chipName = "ESP32-C3" -> "32c3"
    [] chipName = "ESP32-S2" -> "32s2"
    [] chipName = "ESP8266" -> "8266"

\* the names of the chips of roms/index.ts, normalized
StubNames == {stubNameOf(chipName) : chipName \in {"ESP32", "ESP32-C3", "ESP32-S2", "ESP8266"}}

\* the calls of loadStub that may be in progress together
StubCallers == 1..2

\* the chips the callers ask for
StubChips == {"ESP32", "ESP32-S2"}

\* loadStub up to its first await: the cached stub is returned, or the file is requested
LoadStubBegin ==
  /\ pipe.kind = "stub"
  /\ \E c \in StubCallers :
       /\ pipe.calls[c].pc = "idle"
       /\ LET stubName == stubNameOf(pipe.calls[c].chipName)
              after == \E d \in StubCallers :
                         /\ pipe.calls[d].pc = "returned"
                         /\ stubNameOf(pipe.calls[d].chipName) = stubName
          IN IF pipe.cache[stubName] # "none"
             THEN pipe' = [pipe EXCEPT !.calls[c].pc = "returned",
                                       !.calls[c].after = after,
                                       !.calls[c].stub = pipe.cache[stubName]]
             ELSE pipe' = [pipe EXCEPT !.calls[c].pc = "fetching",
                                       !.calls[c].after = after,
                                       !.calls[c].fetched = TRUE,
                                       !.fetches[stubName] = @ + 1]
  /\ UNCHANGED <<dispVars, engVars, esp, ectl, edev, ecmds>>

\* the file arrives: cache[stubName] = stub; return stub
LoadStubFetched ==
  /\ pipe.kind = "stub"
  /\ \E c \in StubCallers :
       /\ pipe.calls[c].pc = "fetching"
       /\ LET stubName == stubNameOf(pipe.calls[c].chipName)
          IN pipe' = [pipe EXCEPT !.calls[c].pc = "returned",
                                  !.calls[c].stub = stubName,
                                  !.cache[stubName] = stubName,
                                  !.writes[stubName] = @ + 1]
  /\ UNCHANGED <<dispVars, engVars, esp, ectl, edev, ecmds>>

\* ---- the four receive operations: listener, timer and settlement ---------

\* the engines whose receive operation is followed
RecvFns == {"stk500v1", "stk500v2", "avr109", "esp"}

\* responseLength of the receive that is followed: the two bytes of OK_RESPONSE
RecvLength == Len(OK_RESPONSE)

\* what the device sends while the receive listens: the whole response, a
\* response that is too long, one whose checksum byte is wrong, or nothing
RecvStreams(fn, sequence) ==
  CASE fn = "stk500v1" -> {<<>>, OK_RESPONSE, <<1>> \o OK_RESPONSE, OK_RESPONSE \o <<RES_STK_OK>>}
    [] fn = "stk500v2" ->
         LET message == fullMessage(sequence, <<1, 0>>)
         IN {<<>>, message, [message EXCEPT ![Len(message)] = (@ + 1) % 256]}
    [] fn = "avr109" -> {<<>>, <<13>>, <<65, 66>>, <<65, 66, 67>>}
    [] fn = "esp" -> {<<>>, slipPkt(<<1, 2>>), <<SLIP_END, 1>>}

\* read: handleChunk folded over the data events heard so far
RECURSIVE espRead(_, _)
espRead(chunks, rd) ==
  IF chunks = <<>> THEN [kind |-> "timeout"]
  ELSE LET next == handleChunk(rd, Head(chunks))
       IN IF next.settled = "resolved" THEN [kind |-> "ok"]
          ELSE espRead(Tail(chunks), next)

\* what handleChunk has decided after the data events heard so far: "timeout"
\* while it has called nothing; sequence is this.sequence of the STK500v2 engine
heardSoFar(fn, events, sequence) ==
  CASE fn = "stk500v1" -> stk1ReceiveData(events, <<>>, FALSE, RecvLength).kind
    [] fn = "stk500v2" ->
         stk2ReceiveData(stream(events),
                         [state |-> 0, length |-> 0, writeHead |-> 0, checksum |-> 0,
                          buffer |-> <<>>, sequence |-> sequence], 0).kind
    [] fn = "avr109" -> a109Recv(events, <<>>, RecvLength, FALSE).kind
    [] fn = "esp" -> espRead(events, [buffer |-> <<>>, started |-> FALSE]).kind

\* a mistaken finished that settles and leaves the listener on the port
finishedListening(rcv, how) ==
  [rcv EXCEPT !.timer = IF @ = "pending" THEN "cleared" ELSE @,
              !.promise = IF @ = "pending" THEN how ELSE @,
              !.finishes = @ + 1]

\* finished: if (timeoutId) clearTimeout(timeoutId); removeListener('data',
\* handleChunk); then reject(err) or resolve(buffer), which settle a promise
\* that is still pending and do nothing to a settled one
finished(rcv, how) ==
  [rcv EXCEPT !.timer = IF @ = "pending" THEN "cleared" ELSE @,
              !.listening = FALSE,
              !.promise = IF @ = "pending" THEN how ELSE @,
              !.finishes = @ + 1]

\* a data event while the listener is on the port: handleChunk
RecvData ==
  /\ pipe.kind = "recv"
  /\ pipe.listening
  /\ pipe.chunks # <<>>
  /\ LET heard == Append(pipe.seen, Head(pipe.chunks))
         rcv == [pipe EXCEPT !.seen = heard, !.chunks = Tail(@)]
         how == heardSoFar(pipe.fn, heard, pipe.seq)
     IN pipe' = IF how = "timeout" THEN rcv ELSE finished(rcv, how)
  /\ UNCHANGED <<dispVars, engVars, esp, ectl, edev, ecmds>>

\* a data event after the listener was removed: nothing of the receive runs
RecvUnheard ==
  /\ pipe.kind = "recv"
  /\ ~pipe.listening
  /\ pipe.chunks # <<>>
  /\ pipe' = [pipe EXCEPT !.chunks = Tail(@)]
  /\ UNCHANGED <<dispVars, engVars, esp, ectl, edev, ecmds>>

\* the timer fires: timeoutId = null; finished(new Error('receiveData timeout ...'))
RecvTimeout ==
  /\ pipe.kind = "recv"
  /\ pipe.timer = "pending"
  /\ pipe' = finished([pipe EXCEPT !.timer = "fired"], "timeout")
  /\ UNCHANGED <<dispVars, engVars, esp, ectl, edev, ecmds>>

\* ---- a command and its response: the order of write and listen -----------

\* what a command does, in order, up to the await of its response: AVR109 cmd
\* calls recv and then send; STK500v1 and STK500v2 sendCommand await
\* serial.write and then call receiveData; ESP command awaits write and then
\* calls read
cmdSteps(fn) ==
  IF fn = "avr109" THEN <<"listen", "write">> ELSE <<"write", "listen">>

\* the next step of the command: the listener is put on the port, or the bytes
\* are written and the device, which has them, sends its reply
CmdStep ==
  /\ pipe.kind = "cmd"
  /\ pipe.steps # <<>>
  /\ pipe' = IF Head(pipe.steps) = "listen"
               THEN [pipe EXCEPT !.steps = Tail(@), !.listening = TRUE]
               ELSE [pipe EXCEPT !.steps = Tail(@), !.wire = pipe.xs, !.chunks = pipe.reply]
  /\ UNCHANGED <<dispVars, engVars, esp, ectl, edev, ecmds>>

\* a data event of the reply is emitted by the port: the listener of the command
\* takes it, or no listener is on the port and the bytes are gone
CmdData ==
  /\ pipe.kind = "cmd"
  /\ pipe.chunks # <<>>
  /\ pipe' = IF pipe.listening
               THEN [pipe EXCEPT !.chunks = Tail(@), !.buffer = @ \o Head(pipe.chunks)]
               ELSE [pipe EXCEPT !.chunks = Tail(@), !.dropped = @ \o Head(pipe.chunks)]
  /\ UNCHANGED <<dispVars, engVars, esp, ectl, edev, ecmds>>

InitPipe ==
  /\ DispAwaiting
  /\ EngIdle
  /\ EspIdle
  /\ \/ \E xs \in SlipPayloads :
          pipe = [kind |-> "slip", xs |-> xs, seq |-> 0, wire |-> <<>>, chunks |-> <<>>,
                  buffer |-> <<>>, started |-> FALSE, settled |-> "no"]
     \/ \E cmd \in Stk2Cmds, sequence \in {0, 1, 255} :
          pipe = [kind |-> "stk2", xs |-> cmd, seq |-> sequence, wire |-> <<>>, chunks |-> <<>>,
                  buffer |-> <<>>, started |-> FALSE, settled |-> "no"]
     \/ \E reply \in Stk1Replies, n \in 0..MaxPacketLen :
          pipe = [kind |-> "stk1recv", xs |-> reply, seq |-> n, wire |-> <<>>, chunks |-> <<>>,
                  buffer |-> <<>>, started |-> FALSE, settled |-> "no"]
     \/ \E body \in Stk2ReplyBodies, sequence \in {0, 1, 255}, replySequence \in {0, 1, 2, 255} :
          pipe = [kind |-> "stk2recv", xs |-> body, seq |-> sequence, wire |-> <<>>,
                  chunks |-> <<fullMessage(replySequence, body)>>,
                  buffer |-> <<>>, started |-> FALSE, settled |-> "no"]
     \/ \E op \in {ESP_FLASH_BEGIN, ESP_READ_REG}, answered \in {ESP_FLASH_BEGIN, ESP_READ_REG},
           status \in EspStatuses :
          pipe = [kind |-> "espresp", xs |-> status, seq |-> op,
                  wire |-> espResponse(answered, status), chunks |-> <<>>,
                  buffer |-> <<>>, started |-> FALSE, settled |-> "no"]
     \/ \E banner \in Banners :
          pipe = [kind |-> "drain", xs |-> <<>>, seq |-> 0, wire |-> <<>>, chunks |-> banner,
                  buffer |-> <<>>, started |-> FALSE, settled |-> "no"]
     \/ pipe = [kind |-> "reconnect", timer |-> "pending", timedOut |-> FALSE,
                callback |-> "running", promise |-> "pending"]
     \/ \E chips \in [StubCallers -> StubChips] :
          pipe = [kind |-> "stub",
                  calls |-> [c \in StubCallers |->
                               [chipName |-> chips[c], pc |-> "idle", after |-> FALSE,
                                fetched |-> FALSE, stub |-> "none"]],
                  cache |-> [n \in StubNames |-> "none"],
                  fetches |-> [n \in StubNames |-> 0],
                  writes |-> [n \in StubNames |-> 0]]
     \/ \E fn \in RecvFns, timed \in BOOLEAN, sequence \in {1, 255} :
          \E bytes \in RecvStreams(fn, sequence) :
            \E cuts \in SUBSET (1..(Len(bytes) - 1)) :
              pipe = [kind |-> "recv", fn |-> fn, seq |-> sequence, chunks |-> split(bytes, cuts), seen |-> <<>>,
                      listening |-> TRUE, timer |-> IF timed THEN "pending" ELSE "none",
                      promise |-> "pending", finishes |-> 0]
     \/ \E fn \in RecvFns, reply \in {<<OK_RESPONSE>>, <<<<RES_STK_INSYNC>>, <<RES_STK_OK>>>>} :
          pipe = [kind |-> "cmd", fn |-> fn, steps |-> cmdSteps(fn), xs |-> <<1>>,
                  reply |-> reply, wire |-> <<>>, chunks |-> <<>>, buffer |-> <<>>,
                  dropped |-> <<>>, listening |-> FALSE]
     \/ \E optPageSize \in OptPageSizes :
          pipe = [kind |-> "setdev", xs |-> <<>>, seq |-> optPageSize, wire |-> <<>>,
                  chunks |-> <<>>, buffer |-> <<>>, started |-> FALSE, settled |-> "no"]

NextPipe ==
  \/ Stk2WriteMessage
  \/ CmdStep
  \/ CmdData
  \/ RecvData
  \/ RecvUnheard
  \/ RecvTimeout
  \/ LoadStubBegin
  \/ LoadStubFetched
  \/ A109ReconnectTimeout
  \/ A109ReconnectThen
  \/ A109ReconnectCatch
  \/ EspDrainData
  \/ EspDrainTimeout
  \/ Stk1WriteSetDevice
  \/ EspCheckCommand
  \/ Stk2ReceiveData
  \/ Stk1ReceiveData
  \/ EspWritePacket
  \/ EspReadChunk
  \/ EspReadTimeout

SpecPipe == InitPipe /\ [][NextPipe]_vars

(* Claims about packets, checked under SpecPipe *)

\* C14: a payload written by ESPLoader.write and delivered to ESPLoader.read
\* decodes to exactly that payload, for every payload (the empty one and
\* those holding 0xC0 or 0xDB included) and every cut into data events
C14_SlipRoundTrip ==
  (pipe.kind = "slip" /\ pipe.wire # <<>> /\ pipe.chunks = <<>>)
    => (pipe.settled = "resolved" /\ pipe.buffer = pipe.xs)

bit(x, k) == (x \div (2 ^ k)) % 2

\* C15: every message sendCommand writes is MESSAGE_START, SEQ, LEN_MSB,
\* LEN_LSB, TOKEN, BODY, C, where LEN is the big-endian length of BODY and C
\* is the XOR of all the bytes before it
C15_Stk2MessageFrame ==
  (pipe.kind = "stk2" /\ pipe.wire # <<>>) =>
    LET w == pipe.wire
        n == Len(pipe.xs)
    IN /\ Len(w) = n + 6
       /\ w[1] = MESSAGE_START
       /\ w[2] = pipe.seq
       /\ (w[3] * 256) + w[4] = n
       /\ w[3] \in 0..255 /\ w[4] \in 0..255
       /\ w[5] = TOKEN
       /\ SubSeq(w, 6, n + 5) = pipe.xs
       /\ \A k \in 0..7 :
            bit(w[n + 6], k) = Cardinality({i \in 1..(n + 5) : bit(w[i], k) = 1}) % 2

C15_Witness ==
  /\ pipe.kind = "stk2"
  /\ pipe.wire # <<>>
  /\ Len(pipe.xs) = LongBodyLen
  /\ pipe.seq = 255
  /\ pipe.wire[3] = 1

-----------------------------------------------------------------------------
(* The ESP loader: esp.upload driving an ESPLoader against a device          *)

\* a 32-bit word as <<high half, low half>>
ESP32_MAGIC == <<240, 7555>>        \* 0x00f01d83
ESP32C3_MAGIC == <<26913, 20591>>   \* 0x6921506f
ESP32S2_MAGIC == <<0, 1990>>        \* 0x000007c6
ESP8266_MAGIC == <<65520, 49409>>   \* 0xfff0c101

\* roms/index.ts, in order
roms ==
  << [CHIP_NAME |-> "ESP32", CHIP_DETECT_MAGIC_VALUE |-> ESP32_MAGIC,
      IS_STUB |-> TRUE, FLASH_WRITE_SIZE |-> 1024],
     [CHIP_NAME |-> "ESP32-C3", CHIP_DETECT_MAGIC_VALUE |-> ESP32C3_MAGIC,
      IS_STUB |-> TRUE, FLASH_WRITE_SIZE |-> 1024],
     [CHIP_NAME |-> "ESP32-S2", CHIP_DETECT_MAGIC_VALUE |-> ESP32S2_MAGIC,
      IS_STUB |-> TRUE, FLASH_WRITE_SIZE |-> 1024],
     [CHIP_NAME |-> "ESP8266", CHIP_DETECT_MAGIC_VALUE |-> ESP8266_MAGIC,
      IS_STUB |-> TRUE, FLASH_WRITE_SIZE |-> 1024] >>

\* this.chip === null
NullChip == "null"

\* the descriptor this.chip refers to
rom(chip) == roms[CHOOSE k \in 1..Len(roms) : roms[k].CHIP_NAME = chip]

\* a reading of the four bytes that takes the first as the most significant
byteArrayToIntBE(arr) ==
  LET buff == [k \in 1..4 |-> IF k <= Len(arr) THEN arr[k] ELSE 0]
  IN <<(buff[1] * 256) + buff[2], (buff[3] * 256) + buff[4]>>

\* #byteArrayToInt: buff.set(arr, 0); buff.readUInt32LE(0)
byteArrayToInt(arr) ==
  LET buff == [k \in 1..4 |-> IF k <= Len(arr) THEN arr[k] ELSE 0]
  IN <<(buff[4] * 256) + buff[3], (buff[2] * 256) + buff[1]>>

\* roms.find((cls) => chipMagicValue === cls.CHIP_DETECT_MAGIC_VALUE) ?? null
romsFind(chipMagicValue) ==
  LET hits == {k \in 1..Len(roms) : roms[k].CHIP_DETECT_MAGIC_VALUE = chipMagicValue}
  IN IF hits = {} THEN NullChip
     ELSE roms[CHOOSE k \in hits : \A j \in hits : k <= j].CHIP_NAME

\* the device: the value field of its READ_REG response, least significant byte first
wordBytes(w) == <<w[2] % 256, w[2] \div 256, w[1] % 256, w[1] \div 256>>

\* the words found at 0x40001000: the four chips, a chip that is not
\* registered (ESP32-S3), and the ESP32 word with its bytes reversed
MagicWords ==
  {ESP32_MAGIC, ESP32C3_MAGIC, ESP32S2_MAGIC, ESP8266_MAGIC, <<60160, 16694>>, <<33565, 61440>>}

\* connect({ attempts = 7 }) and the 8 syncs of #connectAttempt
attempts == 7
SyncsPerAttempt == 8

\* data.toString('ascii')
ascii(data) == [k \in 1..Len(data) |-> data[k] % 128]

\* text.includes(pattern)
includes(text, pattern) ==
  \E k \in 0..(Len(text) - Len(pattern)) : SubSeq(text, k + 1, k + Len(pattern)) = pattern

OHAI == <<79, 72, 65, 73>>

\* what the device sends once MEM_END made it jump to the stub, as data events:
\* nothing; the greeting in one event; the greeting cut in two; another
\* greeting; the greeting with the high bit set on its first letter
Greetings ==
  { <<>>,
    << <<192, 79, 72, 65, 73, 192>> >>,
    << <<192, 79, 72>>, <<65, 73, 192>> >>,
    << <<192, 79, 72, 65, 72, 192>> >>,
    << <<192, 207, 72, 65, 73, 192>> >> }

\* config.files after Buffer.from(file.data, 'base64'): the length of the data,
\* the address, and the length pako.deflate makes of the padded image
MaxFiles == 2
FileDefs ==
  { [len |-> 0, address |-> 0, comp |-> 0],
    [len |-> 6, address |-> 4096, comp |-> 14],
    [len |-> 65536, address |-> 65536, comp |-> 16385] }
FileArrays == UNION {[1..n -> FileDefs] : n \in 1..MaxFiles}

\* #padTo(data, 4): the length of the padded image
padTo(len, alignment) ==
  IF len % alignment = 0 THEN len ELSE len + (alignment - (len % alignment))

\* the outcomes of a command awaited with command(): its response, no response
\* within the timeout, or a response to another command
Outcomes == IF edev.flaky THEN {"ok", "timeout", "invalid"} ELSE {"ok"}

\* esp.upload: the catch around the connection closes the port and returns
CatchConnect(c, e) == [c EXCEPT !.pc = "done", !.closed = TRUE, !.err = e]

\* esp.upload: the catch around the write logs the error
CatchWrite(c, e) == [c EXCEPT !.pc = "done", !.err = e]

\* every attempt the normal variant
esp32r0DelayNever(i) == FALSE

\* connect: esp32r0Delay: i % 2 === 0
esp32r0DelayOf(i) == i % 2 = 0

\* #connectAttempt: the reset pulses and the wait for the device to fall
\* silent, or connect finding its attempts used up
EspConnectAttempt ==
  /\ ectl.pc = "connect"
  /\ IF ectl.i < attempts * 2
       THEN ectl' = [ectl EXCEPT !.pc = "sync", !.s = 0, !.esp32r0Delay = esp32r0DelayOf(ectl.i)]
       ELSE \* connect returns 'error', mainFn returns with chip null
            ectl' = [ectl EXCEPT !.pc = "write"]
  /\ UNCHANGED <<dispVars, engVars, pipe, esp, edev, ecmds>>

\* one pass of for (let i = 0; i < 8; i++) { await this.sync() ... }
EspSync ==
  /\ ectl.pc = "sync"
  /\ \E o \in Outcomes \ {"timeout"} :
       IF ectl.syncs < edev.deaf
         THEN \* the device does not answer: timeout
              ectl' = IF ectl.s + 1 < SyncsPerAttempt
                        THEN [ectl EXCEPT !.syncs = @ + 1, !.s = @ + 1]
                        ELSE [ectl EXCEPT !.syncs = @ + 1, !.pc = "connect", !.i = @ + 1]
       ELSE IF o = "ok"
         THEN ectl' = [ectl EXCEPT !.syncs = @ + 1, !.pc = "detect"]
       ELSE ectl' = CatchConnect([ectl EXCEPT !.syncs = @ + 1], o)
  /\ UNCHANGED <<dispVars, engVars, pipe, esp, edev, ecmds>>

\* connect after a sync: readReg(0x40001000), this.chip = roms.find(...);
\* then mainFn: if (this.chip == null) return
EspDetectChip ==
  /\ ectl.pc = "detect"
  /\ ecmds' = Append(ecmds, [op |-> "READ_REG", addr |-> "CHIP_DETECT_MAGIC_REG_ADDR"])
  /\ \E o \in Outcomes :
       IF o = "ok"
         THEN LET packet == [command |-> "READ_REG", value |-> wordBytes(edev.magic)]
                  chipMagicValue == byteArrayToInt(packet.value)
                  chip == romsFind(chipMagicValue)
              IN /\ esp' = [esp EXCEPT !.chip = chip]
                 /\ ectl' = [ectl EXCEPT !.pc = IF chip = NullChip THEN "write" ELSE "describe"]
         ELSE /\ ectl' = CatchConnect(ectl, o)
              /\ esp' = esp
  /\ UNCHANGED <<dispVars, engVars, pipe, edev>>

\* mainFn: getChipDescription, getChipFeatures, getCrystalFreq, readMac, and the
\* branch on this.chip.IS_STUB
EspDescribeChip ==
  /\ ectl.pc = "describe"
  /\ \E o \in Outcomes :
       IF o # "ok" THEN ectl' = CatchConnect(ectl, o) /\ esp' = esp
       ELSE IF rom(esp.chip).IS_STUB THEN ectl' = [ectl EXCEPT !.pc = "stub"] /\ esp' = esp
       ELSE /\ ectl' = [ectl EXCEPT !.pc = "write"]
            /\ esp' = [esp EXCEPT !.FLASH_WRITE_SIZE = rom(esp.chip).FLASH_WRITE_SIZE]
  /\ UNCHANGED <<dispVars, engVars, pipe, edev, ecmds>>

\* runStub: loadStub, memBegin and memBlock for text and data
EspUploadStub ==
  /\ ectl.pc = "stub"
  /\ \E o \in Outcomes :
       /\ ectl' = IF o = "ok" THEN [ectl EXCEPT !.pc = "memFinish"] ELSE CatchConnect(ectl, o)
       /\ ecmds' = ecmds \o (IF o = "ok"
                               THEN <<[op |-> "MEM_BEGIN"], [op |-> "MEM_DATA"],
                                      [op |-> "MEM_BEGIN"], [op |-> "MEM_DATA"]>>
                               ELSE <<[op |-> "MEM_BEGIN"]>>)
  /\ UNCHANGED <<dispVars, engVars, pipe, esp, edev>>

\* runStub: this.serial.on('data', validCheck); memFinish(entry) up to its write
EspMemFinish ==
  /\ ectl.pc = "memFinish"
  /\ ecmds' = Append(ecmds, [op |-> "MEM_END"])
  /\ ectl' = [ectl EXCEPT !.pc = "memEnd", !.listening = TRUE, !.valid = FALSE]
  /\ edev' = [edev EXCEPT !.running = TRUE]
  /\ UNCHANGED <<dispVars, engVars, pipe, esp>>

\* a data event from the started stub: validCheck, while it is attached
EspStubData ==
  /\ edev.running
  /\ edev.greeting # <<>>
  /\ LET data == Head(edev.greeting) IN
       /\ edev' = [edev EXCEPT !.greeting = Tail(@), !.heard = Append(@, data)]
       /\ ectl' = IF ectl.listening /\ includes(ascii(data), OHAI)
                    THEN [ectl EXCEPT !.valid = TRUE]
                    ELSE ectl
  /\ UNCHANGED <<dispVars, engVars, pipe, esp, ecmds>>

\* memFinish: the response to MEM_END, awaited for 500 ms
EspMemEndResponse ==
  /\ ectl.pc = "memEnd"
  /\ \E o \in Outcomes :
       ectl' = IF o = "ok" THEN [ectl EXCEPT !.pc = "stubWait", !.n = 0]
               ELSE CatchConnect(ectl, o)
  /\ UNCHANGED <<dispVars, engVars, pipe, esp, edev, ecmds>>

\* for (let i = 0; i < 10 && !valid; i++) await this.#sleep(20)
EspStubSleep ==
  /\ ectl.pc = "stubWait"
  /\ ectl.n < 10 /\ ~ectl.valid
  /\ ectl' = [ectl EXCEPT !.n = @ + 1]
  /\ UNCHANGED <<dispVars, engVars, pipe, esp, edev, ecmds>>

\* IS_STUB after the wait, given valid, were valid not consulted
stubFlagAlways(valid, was) == TRUE

\* if (valid) { this.IS_STUB = true; ... }
stubFlag(valid, was) == IF valid THEN TRUE ELSE was

\* runStub after the wait: removeListener, if (valid) { IS_STUB = true; FLASH_WRITE_SIZE = 0x4000 }
EspStubDone ==
  /\ ectl.pc = "stubWait"
  /\ ectl.n = 10 \/ ectl.valid
  /\ ectl' = [ectl EXCEPT !.pc = "write", !.listening = FALSE]
  /\ esp' = [esp EXCEPT !.IS_STUB = stubFlag(ectl.valid, @),
                        !.FLASH_WRITE_SIZE = IF ectl.valid THEN 16384 ELSE @]
  /\ UNCHANGED <<dispVars, engVars, pipe, edev, ecmds>>

\* writeFlash: if (!this.chip) throw
EspWriteFlash ==
  /\ ectl.pc = "write"
  /\ ectl' = IF esp.chip = NullChip THEN CatchWrite(ectl, "Chip not initialized")
             ELSE [ectl EXCEPT !.pc = "file", !.f = 1]
  /\ UNCHANGED <<dispVars, engVars, pipe, esp, edev, ecmds>>

\* Math.floor((size + this.FLASH_WRITE_SIZE - 1) / this.FLASH_WRITE_SIZE)
ceilBlocks(size, writeSize) == (size + writeSize - 1) \div writeSize

\* the top of the loop over fileArray: the end of the array, an empty file
\* (break), or flashDeflBegin(rawSize, image.length, address)
EspFileBegin ==
  /\ ectl.pc = "file"
  /\ IF ectl.f > Len(ectl.files) \/ ectl.files[ectl.f].len = 0
       THEN ectl' = [ectl EXCEPT !.pc = "leave"] /\ ecmds' = ecmds
       ELSE LET file == ectl.files[ectl.f]
                size == padTo(file.len, 4)
                numBlocks == ceilBlocks(file.comp, esp.FLASH_WRITE_SIZE)
                eraseBlocks == ceilBlocks(size, esp.FLASH_WRITE_SIZE)
                writeSize == IF ~esp.IS_STUB THEN eraseBlocks * esp.FLASH_WRITE_SIZE ELSE size
            IN /\ ecmds' = Append(ecmds, [op |-> "FLASH_DEFL_BEGIN", size |-> writeSize,
                                          blocks |-> numBlocks,
                                          blockSize |-> esp.FLASH_WRITE_SIZE,
                                          offset |-> file.address])
               /\ \E o \in Outcomes :
                    ectl' = IF o = "ok"
                              THEN [ectl EXCEPT !.pc = "block", !.seq = 0, !.left = file.comp]
                              ELSE CatchWrite(ectl, o)
  /\ UNCHANGED <<dispVars, engVars, pipe, esp, edev>>

\* while (image.length > 0): flashDeflBlock(image.subarray(0, FLASH_WRITE_SIZE), seq, timeout)
EspFlashDeflBlock ==
  /\ ectl.pc = "block"
  /\ ectl.left > 0
  /\ LET n == Min(ectl.left, esp.FLASH_WRITE_SIZE) IN
       /\ ecmds' = Append(ecmds, [op |-> "FLASH_DEFL_DATA", len |-> n, seq |-> ectl.seq])
       /\ \E o \in Outcomes :
            ectl' = IF o = "ok" THEN [ectl EXCEPT !.left = @ - n, !.seq = @ + 1]
                    ELSE CatchWrite(ectl, o)
  /\ UNCHANGED <<dispVars, engVars, pipe, esp, edev>>

\* MD5 of an image and the sum a device reports for a region, as digests that
\* tell the images of the model apart; OtherMd5 is the sum of no such image
calcMd5(file) == <<"md5", file.len, file.address>>
OtherMd5 == <<"md5", 0, 0>>

\* a comparison whose failure is raised
afterMd5Raised(c, res, sum) ==
  IF res # sum THEN [c EXCEPT !.pc = "done", !.err = "md5"] ELSE c

\* if (`${res}` !== `${calcMd5}`) { this.log(...) } else { this.log('Hash of data verified.') }
afterMd5(c, res, sum) ==
  IF res # sum THEN [c EXCEPT !.mismatches = @ + 1] ELSE c

\* after the blocks of a file: readReg when the stub runs, flashMd5sum when the
\* stub runs or the chip is no ESP8266 (a differing sum is only logged)
EspFileEnd ==
  /\ ectl.pc = "block"
  /\ ectl.left = 0
  /\ LET file == ectl.files[ectl.f]
         readReg == IF esp.IS_STUB
                      THEN <<[op |-> "READ_REG", addr |-> "CHIP_DETECT_MAGIC_REG_ADDR"]>>
                      ELSE <<>>
         md5 == IF esp.IS_STUB \/ esp.chip # "ESP8266"
                  THEN <<[op |-> "SPI_FLASH_MD5", addr |-> file.address,
                          size |-> padTo(file.len, 4)]>>
                  ELSE <<>>
     IN \/ /\ ecmds' = ecmds \o readReg \o md5
           /\ IF md5 = <<>>
                THEN ectl' = [ectl EXCEPT !.pc = "file", !.f = @ + 1]
                ELSE \E res \in {calcMd5(file), OtherMd5} :
                       ectl' = afterMd5([ectl EXCEPT !.pc = "file", !.f = @ + 1],
                                        res, calcMd5(file))
        \/ \E o \in Outcomes \ {"ok"} :
             \/ /\ readReg # <<>>
                /\ ecmds' = ecmds \o readReg
                /\ ectl' = CatchWrite(ectl, o)
             \/ /\ md5 # <<>>
                /\ ecmds' = ecmds \o readReg \o md5
                /\ ectl' = CatchWrite(ectl, o)
  /\ UNCHANGED <<dispVars, engVars, pipe, esp, edev>>

\* an end command that always asks the loader to stay
finishValStay(reboot) == 1

\* flashFinish / flashDeflFinish: const val = reboot ? 0 : 1
finishVal(reboot) == IF reboot THEN 0 ELSE 1

\* the end of writeFlash: if (this.IS_STUB) { flashBegin(0, 0); flashDeflFinish() }
EspLeave ==
  /\ ectl.pc = "leave"
  /\ IF esp.IS_STUB
       THEN LET begin == [op |-> "FLASH_BEGIN", size |-> 0,
                          blocks |-> ceilBlocks(0, esp.FLASH_WRITE_SIZE),
                          blockSize |-> esp.FLASH_WRITE_SIZE, offset |-> 0]
                finish == [op |-> "FLASH_DEFL_END", val |-> finishVal(FALSE)]
            IN \/ /\ ecmds' = ecmds \o <<begin, finish>>
                  /\ ectl' = [ectl EXCEPT !.pc = "reboot"]
               \/ \E o \in Outcomes \ {"ok"} :
                    /\ ecmds' \in {ecmds \o <<begin>>, ecmds \o <<begin, finish>>}
                    /\ ectl' = CatchWrite(ectl, o)
       ELSE ectl' = [ectl EXCEPT !.pc = "reboot"] /\ ecmds' = ecmds
  /\ UNCHANGED <<dispVars, engVars, pipe, esp, edev>>

\* esp.upload after writeFlash: flashDeflFinish({ reboot: true }), then the
\* messages of success
EspReboot ==
  /\ ectl.pc = "reboot"
  /\ ecmds' = Append(ecmds, [op |-> "FLASH_DEFL_END", val |-> finishVal(TRUE)])
  /\ \E o \in Outcomes :
       ectl' = IF o = "ok" THEN [ectl EXCEPT !.pc = "done", !.ok = TRUE]
               ELSE CatchWrite(ectl, o)
  /\ UNCHANGED <<dispVars, engVars, pipe, esp, edev>>

\* after new ESPLoader(serial, ...): the fields the constructor sets, and a
\* device that ignores the first deaf syncs
InitEsp ==
  /\ DispAwaiting
  /\ EngIdle
  /\ pipe = [kind |-> "none"]
  /\ esp = [IS_STUB |-> FALSE, chip |-> NullChip, FLASH_WRITE_SIZE |-> 16384]
  /\ \E files \in FileArrays :
       ectl = [pc |-> "connect", i |-> 0, s |-> 0, syncs |-> 0, esp32r0Delay |-> FALSE,
               listening |-> FALSE, valid |-> FALSE, n |-> 0,
               files |-> files, f |-> 1, seq |-> 0, left |-> 0,
               ok |-> FALSE, closed |-> FALSE, err |-> "none", mismatches |-> 0]
  /\ \E deaf \in {0, 9, (attempts * 2 * SyncsPerAttempt) - 1, attempts * 2 * SyncsPerAttempt},
        magic \in MagicWords, greeting \in Greetings, flaky \in BOOLEAN :
       edev = [deaf |-> deaf, magic |-> magic, greeting |-> greeting, flaky |-> flaky,
               running |-> FALSE, heard |-> <<>>]
  /\ ecmds = <<>>

NextEsp ==
  \/ EspConnectAttempt
  \/ EspSync
  \/ EspDetectChip
  \/ EspDescribeChip
  \/ EspUploadStub
  \/ EspMemFinish
  \/ EspStubData
  \/ EspMemEndResponse
  \/ EspStubSleep
  \/ EspStubDone
  \/ EspWriteFlash
  \/ EspFileBegin
  \/ EspFlashDeflBlock
  \/ EspFileEnd
  \/ EspLeave
  \/ EspReboot

SpecEsp == InitEsp /\ [][NextEsp]_vars

(* Claims about the ESP loader, checked under SpecEsp *)

memEndSent == \E k \in 1..Len(ecmds) : ecmds[k].op = "MEM_END"

\* a data event that arrived after MEM_END was written reads, as text, with OHAI in it
ohaiObserved == \E j \in 1..Len(edev.heard) : includes(ascii(edev.heard[j]), OHAI)

chipDetected == ecmds # <<>> /\ ~ectl.closed

\* C16: after a successful sync connect sets chip to the descriptor whose
\* CHIP_DETECT_MAGIC_VALUE equals the word at 0x40001000; the magic values of
\* the descriptors are pairwise distinct (0x00F01D83 selects ESP32, 0xFFF0C101
\* selects ESP8266), and a word matching no descriptor leaves chip null
C16_ChipByMagic ==
  /\ \A a, b \in 1..Len(roms) :
       a # b => roms[a].CHIP_DETECT_MAGIC_VALUE # roms[b].CHIP_DETECT_MAGIC_VALUE
  /\ chipDetected =>
       /\ \A k \in 1..Len(roms) :
            (esp.chip = roms[k].CHIP_NAME) <=> (roms[k].CHIP_DETECT_MAGIC_VALUE = edev.magic)
       /\ (esp.chip = NullChip) <=>
            (\A k \in 1..Len(roms) : roms[k].CHIP_DETECT_MAGIC_VALUE # edev.magic)
       /\ edev.magic = <<240, 7555>> => esp.chip = "ESP32"
       /\ edev.magic = <<65520, 49409>> => esp.chip = "ESP8266"

C16_Witness ==
  /\ chipDetected
  /\ edev.magic = <<65520, 49409>>
  /\ esp.chip = "ESP8266"
  /\ ectl.pc = "describe"

FlashOps ==
  {"FLASH_BEGIN", "FLASH_DATA", "FLASH_END", "FLASH_DEFL_BEGIN", "FLASH_DEFL_DATA",
   "FLASH_DEFL_END"}

\* the flash commands of the upload, in order
flashCmds == SelectSeq(ecmds, LAMBDA c : c.op \in FlashOps)

isFlashBegin00(c) == c.op = "FLASH_BEGIN" /\ c.size = 0 /\ c.offset = 0
isEnd(c, val) == c.op \in {"FLASH_END", "FLASH_DEFL_END"} /\ c.val = val

\* C20 as stated: in a successful upload the flash commands end with
\* FLASH_BEGIN(0,0) and the end command with stay_in_loader = 1, and no end
\* command with stay_in_loader = 0 is sent
C20_StayInLoaderIsLast ==
  (ectl.pc = "done" /\ ectl.ok) =>
    LET n == Len(flashCmds) IN
      /\ n >= 2
      /\ isFlashBegin00(flashCmds[n - 1])
      /\ isEnd(flashCmds[n], 1)
      /\ \A k \in 1..n : ~isEnd(flashCmds[k], 0)

\* C20, amended: in a successful upload the last flash command is
\* FLASH_DEFL_END with stay_in_loader = 0, sent by upload after writeFlash, and
\* it is the only end command with 0; when the stub runs it follows
\* FLASH_BEGIN(0,0) and FLASH_DEFL_END with stay_in_loader = 1, and when the
\* stub does not run there is no FLASH_BEGIN and no other end command
C20_RebootIsLast ==
  (ectl.pc = "done" /\ ectl.ok) =>
    LET n == Len(flashCmds) IN
      /\ n >= 1
      /\ flashCmds[n].op = "FLASH_DEFL_END" /\ flashCmds[n].val = 0
      /\ \A k \in 1..(n - 1) : ~isEnd(flashCmds[k], 0)
      /\ esp.IS_STUB =>
           /\ n >= 3
           /\ isFlashBegin00(flashCmds[n - 2])
           /\ flashCmds[n - 1].op = "FLASH_DEFL_END" /\ flashCmds[n - 1].val = 1
           /\ \A k \in 1..(n - 3) : flashCmds[k].op \in {"FLASH_DEFL_BEGIN", "FLASH_DEFL_DATA"}
      /\ ~esp.IS_STUB =>
           \A k \in 1..(n - 1) : flashCmds[k].op \in {"FLASH_DEFL_BEGIN", "FLASH_DEFL_DATA"}

C20_Witness ==
  /\ ectl.pc = "done"
  /\ ectl.ok
  /\ esp.IS_STUB
  /\ Len(ectl.files) = 2
  /\ ectl.f = 3
  /\ Len(flashCmds) = 8

\* the files writeFlash gets to: those before the first empty one
RECURSIVE written(_)
written(files) ==
  IF files = <<>> \/ Head(files).len = 0 THEN <<>>
  ELSE <<Head(files)>> \o written(Tail(files))

md5Cmds == SelectSeq(ecmds, LAMBDA c : c.op = "SPI_FLASH_MD5")

\* C21: writeFlash skips the MD5 request exactly when the chip is ESP8266 and
\* the stub is not running; a sum that differs from the MD5 of the image
\* raises nothing: the remaining files are still written and writeFlash
\* completes normally
C21_Md5MismatchNotFatal ==
  /\ ectl.pc \in {"file", "leave", "reboot"} =>
       Len(md5Cmds) = IF esp.chip = "ESP8266" /\ ~esp.IS_STUB THEN 0 ELSE ectl.f - 1
  /\ ectl.err # "md5"
  /\ (ectl.pc = "reboot" /\ ectl.mismatches > 0) =>
       /\ ectl.f = Len(written(ectl.files)) + 1
       /\ Len(SelectSeq(ecmds, LAMBDA c : c.op = "FLASH_DEFL_BEGIN")) = Len(written(ectl.files))

C21_Witness ==
  /\ ectl.pc = "reboot"
  /\ ectl.mismatches = 1
  /\ Len(written(ectl.files)) = 2
  /\ ~esp.IS_STUB
  /\ esp.chip = "ESP32"
  /\ Len(md5Cmds) = 2

-----------------------------------------------------------------------------
(* The wire order of STK500v1 bootload, checked under SpecEngine *)

\* n pairs (LOAD_ADDRESS, op)
RECURSIVE pairs(_, _)
pairs(n, op) == IF n = 0 THEN <<>> ELSE <<"LOAD_ADDRESS", op>> \o pairs(n - 1, op)

\* the commands of a whole bootload of an image of len bytes in pages of ps bytes
wireOrder(len, ps) ==
  LET N == (len + ps - 1) \div ps IN
  <<"GET_SYNC", "GET_SYNC", "GET_SYNC", "READ_SIGN", "SET_DEVICE", "ENTER_PROGMODE">>
    \o pairs(N, "PROG_PAGE") \o pairs(N, "READ_PAGE") \o <<"LEAVE_PROGMODE">>

isPrefix(s, t) == Len(s) <= Len(t) /\ s = SubSeq(t, 1, Len(s))

\* the number of LOAD_ADDRESS commands among the first n commands written
loadsIn(n) == Cardinality({k \in 1..n : sent[k] = "LOAD_ADDRESS"})

-----------------------------------------------------------------------------
(* The retries of sync, checked under SpecEngine *)

\* C23: in STK500v1 sync and STK500v2 sync a failed attempt is retried only when
\* it failed by receive timeout: sync sends its command again only after no
\* error or a receive timeout, never after another error
C23_SyncRetriesOnlyTimeout ==
  [][(proto \in {"stk500v1", "stk500v2"} /\ epc = "sync" /\ Len(sent') > Len(sent)) =>
       loc.caught \in {"none", "timeout"}]_vars

\* the RETURN_SOFTWARE_ID commands written so far
softwareIdSends == Cardinality({k \in 1..Len(sent) : sent[k] = "S"})

\* C24: AVR109 sync performs at most 5 retries, 6 sends of RETURN_SOFTWARE_ID in
\* total, before it fails with the failed-to-connect-to-bootloader error; while
\* sync runs, and when it has failed so, no more than 6 have been sent
C24_Avr109SyncSixSends ==
  (proto = "avr109" /\ (epc = "sync" \/ eerr = "Failed to connect to bootloader")) =>
    softwareIdSends <= 6

-----------------------------------------------------------------------------
(* The pages of STK500v1 and STK500v2 upload and verify, checked under SpecEngine *)

\* the bytes first..(last - 1) of the image, counted from 0
imageSlice(first, last) == [k \in 1..(last - first) |-> hex[first + k]]

\* the pages are the consecutive page_size slices of the first kept bytes of the
\* image, and a bootload that resolves against a conformant device has written
\* and read back one page per slice and left exactly these bytes in the flash
pagesCover(kept) ==
  LET N == (Len(hex) + pageSize - 1) \div pageSize IN
  /\ \A i \in 0..(N - 1) :
       writeBytes(hex, pageSize, i)
         = imageSlice(i * pageSize, Max(Min((i + 1) * pageSize, kept), i * pageSize))
  /\ (Conformant /\ epc = "done") =>
       /\ \A k \in 0..(FlashSize - 1) :
            dev.flash[k] = IF k < kept THEN hex[k + 1] ELSE 255
       /\ Cardinality({k \in 1..Len(sent) : sent[k] \in PageWriteOps}) = N
       /\ Cardinality({k \in 1..Len(sent) : sent[k] \in VerifyReadOps}) = N

\* C25 as stated: in STK500v1 and STK500v2 upload and verify the pages are
\* consecutive page_size slices from offset 0; when the image is longer than
\* page_size its trailing byte is clipped from the final page, and every other
\* byte of the image is sent in exactly one page
C25_ClipsWhenLonger ==
  proto \in {"stk500v1", "stk500v2"} =>
    pagesCover(IF Len(hex) > pageSize THEN Len(hex) - 1 ELSE Len(hex))

\* C25, amended: the pages are consecutive page_size slices from offset 0; when
\* the image is not longer than page_size its trailing byte is clipped from its
\* only page (neither programmed nor verified); when it is longer nothing is
\* clipped; every byte that is not clipped is sent in exactly one page
C25_ClipsWhenNotLonger ==
  proto \in {"stk500v1", "stk500v2"} =>
    pagesCover(IF Len(hex) > pageSize THEN Len(hex) ELSE Max(Len(hex) - 1, 0))

\* an STK500v2 bootload of an image of exactly one page has resolved, and the
\* last byte of the image is not in the flash
C25_Witness ==
  /\ proto = "stk500v2"
  /\ Conformant
  /\ epc = "done"
  /\ Len(hex) = 2
  /\ pageSize = 2
  /\ hex[2] = 20
  /\ dev.flash[0] = hex[1]
  /\ dev.flash[1] = 255

-----------------------------------------------------------------------------
(* The SET_DEVICE command of STK500v1, checked under SpecPipe *)

\* C26: for every page size p in 1..65535 (256 when the profile gives none) the
\* SET_DEVICE command carries page-size-high = (p >> 8) & 0xFF and
\* page-size-low = p & 0xFF, and every other parameter byte is zero
C26_SetDevicePageSize ==
  (pipe.kind = "setdev" /\ pipe.wire # <<>>) =>
    LET p == IF pipe.seq = 0 THEN 256 ELSE pipe.seq IN
    /\ Len(pipe.wire) = 22
    /\ pipe.wire[1] = CMD_STK_SET_DEVICE
    /\ pipe.wire[14] = (p \div 256) % 256
    /\ pipe.wire[15] = p % 256
    /\ \A k \in (2..21) \ {14, 15} : pipe.wire[k] = 0

-----------------------------------------------------------------------------
(* The receiver of STK500v1, checked under SpecPipe *)

\* C27: for a stream of any number of bytes that are not IN_SYNC followed by a
\* reply of the target length that begins with IN_SYNC, and for every split of
\* the stream into data events, receiveData resolves with exactly the reply
C27_Stk1ReceivesReply ==
  (pipe.kind = "stk1recv" /\ pipe.wire # <<>>) =>
    (pipe.settled = "ok" /\ pipe.buffer = pipe.xs)

-----------------------------------------------------------------------------
(* The receiver of STK500v2, checked under SpecPipe *)

\* C28: the STK500v2 receiver accepts a reply only if the byte immediately
\* following MESSAGE_START equals the SEQ of the request just sent: a message
\* whose SEQ byte differs is never returned as the response
C28_Stk2ReplyCarriesSeq ==
  (pipe.kind = "stk2recv" /\ pipe.settled = "ok") => pipe.wire[2] = pipe.seq

-----------------------------------------------------------------------------
(* The status of an ESP response, checked under SpecPipe *)

\* C29: an ESP response whose trailing status bytes are non-zero makes the
\* command fail: checkCommand reports success only when the status in the
\* response body is zero
C29_NonZeroStatusFails ==
  (pipe.kind = "espresp" /\ pipe.settled = "resolved") =>
    \A k \in 1..Len(pipe.xs) : pipe.xs[k] = 0

-----------------------------------------------------------------------------
(* The end of ESP connect, checked under SpecEsp *)

\* connect is still trying
connecting(c) == c.pc \in {"connect", "sync"}

\* what connect can still do at most: the attempts left, each one reset and
\* SyncsPerAttempt SYNC commands, less what the running attempt has done
connectRank(c) ==
  (2 * attempts - c.i) * (SyncsPerAttempt + 1) - (IF c.pc = "sync" THEN c.s + 1 ELSE 0)

\* C30: ESP connect terminates: it makes at most 2 x attempts connect attempts,
\* alternating the esp32r0-delay variant and the normal one, each attempt sends
\* at most 8 SYNC commands, once a SYNC has been answered no further reset pulse
\* and no further SYNC is sent, and if no SYNC is ever answered connect ends
\* reporting failure (no chip, no command after the last SYNC)
C30_ConnectTerminates ==
  /\ [](/\ ectl.i <= 2 * attempts
        /\ ectl.s < SyncsPerAttempt
        /\ ectl.syncs <= 2 * attempts * SyncsPerAttempt
        /\ connectRank(ectl) >= 0
        /\ ectl.pc = "sync" =>
             /\ ectl.i < 2 * attempts
             /\ ectl.esp32r0Delay <=> (ectl.i % 2 = 0)
             /\ ectl.syncs = SyncsPerAttempt * ectl.i + ectl.s
        /\ connecting(ectl) => ENABLED NextEsp
        /\ (~connecting(ectl) /\ edev.deaf >= 2 * attempts * SyncsPerAttempt) =>
             /\ ectl.syncs = 2 * attempts * SyncsPerAttempt
             /\ esp.chip = NullChip
             /\ ecmds = <<>>)
  /\ [][/\ (connecting(ectl) /\ connecting(ectl')) => connectRank(ectl') < connectRank(ectl)
        /\ ~connecting(ectl) => (~connecting(ectl') /\ ectl'.syncs = ectl.syncs)]_vars

\* connect has given up on a device that never answers, after all its attempts
C30_Witness ==
  /\ ectl.pc = "write"
  /\ edev.deaf = 2 * attempts * SyncsPerAttempt
  /\ ectl.i = 2 * attempts
  /\ ectl.syncs = 2 * attempts * SyncsPerAttempt
  /\ esp.chip = NullChip

-----------------------------------------------------------------------------
(* The drain of an ESP connect attempt, checked under SpecPipe *)

\* C31: the drain phase ends only after a 500 ms read window in which no byte
\* was received: a window during which bytes arrived is followed by another read
C31_DrainEndsOnSilence ==
  (pipe.kind = "drain" /\ pipe.settled = "drained") => pipe.wire = <<>>

-----------------------------------------------------------------------------
(* AVR109 reconnect, checked under SpecPipe *)

\* C32: reconnect settles with whichever of the callback's outcome and the 30 s
\* timer completes first; a port delivered after the timeout is not adopted; and
\* once reconnect has settled, by the callback's resolution, by its rejection or
\* by the timeout, no timer created by it remains pending
C32_ReconnectLeavesNoTimer ==
  pipe.kind = "reconnect" =>
    /\ pipe.promise = "resolved" => (pipe.callback = "resolved" /\ ~pipe.timedOut)
    /\ pipe.promise = "rejected" => pipe.callback = "rejected"
    /\ pipe.promise = "reconnect timed out" => pipe.timedOut
    /\ pipe.promise # "pending" => pipe.timer # "pending"

-----------------------------------------------------------------------------
(* The response lengths of AVR109 init, checked under SpecDefect *)

\* init is over when chipErase has been sent
a109InitOver == \E k \in 1..Len(sent) : sent[k] = "e"

\* C33: during AVR109 init against a device that answers each command with the
\* number of bytes the protocol prescribes, every response byte is consumed by
\* the command that elicited it: no receive fails with buffer overflow and no
\* byte is left over for the next command, also when the device implements the
\* hardware-version query (2-byte reply)
C33_InitConsumesReplies ==
  (proto = "avr109" /\ ~a109InitOver) => (eerr # "overflow" /\ link.stray = <<>>)

-----------------------------------------------------------------------------
(* The OHAI listener of runStub, checked under SpecEsp *)

\* C34: in runStub the OHAI listener is attached before MEM_END is written and
\* detached on every exit path of runStub, the one on which MEM_END fails or
\* times out included: it is attached while MEM_END is awaited and the wait
\* runs, and at no other moment
C34_OhaiListenerDetached ==
  /\ ectl.pc \in {"memEnd", "stubWait"} => ectl.listening
  /\ ectl.pc \notin {"memEnd", "stubWait"} => ~ectl.listening

-----------------------------------------------------------------------------
(* OHAI cut across data events, checked under SpecEsp *)

\* C35: if the four bytes OHAI arrive consecutively on the serial stream after
\* MEM_END has been sent and before the wait window ends, runStub sets
\* IS_STUB = true and FLASH_WRITE_SIZE = 0x4000, however the bytes are split
\* across data events
C35_OhaiAcrossEvents ==
  [][(ectl.pc = "stubWait" /\ ectl'.pc # "stubWait" /\ includes(stream(edev.heard), OHAI)) =>
       (esp'.IS_STUB /\ esp'.FLASH_WRITE_SIZE = 16384)]_vars

\* C36: for each normalized chip name the cache entry is written at most once and
\* the stub is fetched at most once, also when two calls of loadStub for the same
\* chip overlap; a call made after another for the same chip has returned takes
\* the cached stub without fetching
C36_StubFetchedOnce ==
  pipe.kind = "stub" =>
    /\ \A n \in StubNames : pipe.fetches[n] <= 1 /\ pipe.writes[n] <= 1
    /\ \A c \in StubCallers :
         (pipe.calls[c].after /\ pipe.calls[c].pc = "returned") =>
           (~pipe.calls[c].fetched /\ pipe.calls[c].stub = stubNameOf(pipe.calls[c].chipName))

\* C37: each receive operation (STK500v1 and STK500v2 receiveData, AVR109 recv,
\* ESP read) settles at most once, and once it has settled, by a complete
\* response, an overflow, a checksum error or a timeout, its data listener is off
\* the port and its timer is no longer pending
C37_ReceiveSettlesClean ==
  pipe.kind = "recv" =>
    /\ pipe.finishes <= 1
    /\ pipe.promise = "pending" <=> pipe.finishes = 0
    /\ pipe.promise # "pending" => (~pipe.listening /\ pipe.timer # "pending")

\* an STK500v2 receive with a timer has settled on a checksum error
C37_Witness ==
  /\ pipe.kind = "recv"
  /\ pipe.fn = "stk500v2"
  /\ pipe.promise = "checksum error"
  /\ pipe.timer = "cleared"
  /\ ~pipe.listening

------------------------------------------------------------------------------
(* the write size of the flash commands, checked under SpecEsp *)

\* C38: whenever the loader issues a flash-begin or flash-data command,
\* FLASH_WRITE_SIZE is 0x4000 if IS_STUB is true and the write size of the chip's
\* ROM (0x400) if IS_STUB is false, also when the stub was uploaded and did not start
C38_WriteSizeFollowsStub ==
  (\E k \in 1..Len(ecmds) : ecmds[k].op \in {"FLASH_DEFL_BEGIN", "FLASH_DEFL_DATA"}) =>
    esp.FLASH_WRITE_SIZE = IF esp.IS_STUB THEN 16384 ELSE rom(esp.chip).FLASH_WRITE_SIZE

------------------------------------------------------------------------------
(* the listener of a command and its write, checked under SpecPipe *)

\* C39: in every engine the data listener that collects a command's response is
\* on the port before the command's bytes are written, so no byte of the reply
\* is delivered while no listener is attached and thereby dropped
C39_ListenBeforeWrite ==
  pipe.kind = "cmd" =>
    /\ pipe.wire # <<>> => pipe.listening
    /\ pipe.dropped = <<>>

------------------------------------------------------------------------------
(* an empty file in fileArray, checked under SpecEsp *)

\* the flash-begin commands sent so far, and the files of fileArray that hold data
deflBegins == SelectSeq(ecmds, LAMBDA c : c.op = "FLASH_DEFL_BEGIN")
nonEmpty(files) == SelectSeq(files, LAMBDA file : file.len # 0)

\* C40: writeFlash issues a flash-begin for, and writes, every non-empty file of
\* fileArray in list order, even when an empty file occurs earlier in the list:
\* once writeFlash has returned, the flash-begin commands are those of the
\* non-empty files, one each, in order
C40_EmptyFileSkipped ==
  ectl.pc = "reboot" =>
    /\ Len(deflBegins) = Len(nonEmpty(ectl.files))
    /\ \A k \in 1..Len(deflBegins) : deflBegins[k].offset = nonEmpty(ectl.files)[k].address

====
